---- MODULE Spec2Model ----
(***************************************************************************)
(* A model of ExecHelper, the exec-call interceptor preloaded into         *)
(* sandboxed processes (src/src/lib.c, common.c, realpath.c).              *)
(*                                                                         *)
(* C strings are modelled as sequences of one-character strings; the      *)
(* terminating NUL is the end of the sequence, so the C test  s[i] == 0   *)
(* is  i >= Len(s)  for a 0-based index i.                                *)
(***************************************************************************)
EXTENDS Integers, Sequences, FiniteSets, TLC

(***************************************************************************)
(* Bounds of the model.                                                    *)
(***************************************************************************)
\* longest policy list / candidate path enumerated by the list specification
MaxListLen == 4
MaxPathLen == 3
\* symbolic links the kernel follows in one path walk before it fails with ELOOP
MaxSymlinkHops == 4
\* link expansions of one canonicalization after which the model reports the
\* loop as not terminating
MaxLinkExpansions == 6
\* strings a caller passes after argv[0]
MaxArgs == 2
\* latest modification time, in seconds, a policy file gets
MaxMtime == 2

(***************************************************************************)
(* Strings.                                                                *)
(***************************************************************************)
\* the null pointer, distinct from every string (no character is "<null>")
NULL == <<"<null>">>

SLASH == "/"

\* EXECHELP_FILE_SEPARATOR_CHR
EXECHELP_FILE_SEPARATOR_CHR == "\n"

\* all strings over alphabet A of length at most n
RECURSIVE StringsUpTo(_, _)
StringsUpTo(A, n) ==
  IF n = 0 THEN {<<>>}
  ELSE LET shorter == StringsUpTo(A, n - 1)
       IN  shorter \cup {Append(s, c) : s \in shorter, c \in A}

\* the suffix of s starting at the 0-based offset off (the C pointer s + off)
Suffix(s, off) == SubSeq(s, off + 1, Len(s))

\* strchr(s, c) != NULL
strchr_found(s, c) == \E i \in 1..Len(s) : s[i] = c

\* 0-based offset of the first occurrence of needle in hay at or after the
\* 0-based offset from, or -1 (strstr returning NULL)
strstr(hay, needle, from) ==
  LET n    == Len(needle)
      hits == {i \in from..(Len(hay) - n) : SubSeq(hay, i + 1, i + n) = needle}
  IN  IF hits = {} THEN -1
      ELSE CHOOSE i \in hits : \A j \in hits : i <= j

(***************************************************************************)
(* Policy-list membership (common.c).                                      *)
(***************************************************************************)
\* a loop that wants one byte of the prefix matched: no empty prefix
RECURSIVE prefix_on_sep_nonempty(_, _, _, _)
prefix_on_sep_nonempty(str, prefix, sep, i) ==
  IF i < Len(str) /\ i < Len(prefix) /\ prefix[i + 1] # sep
  THEN IF str[i + 1] # prefix[i + 1]
       THEN 0
       ELSE prefix_on_sep_nonempty(str, prefix, sep, i + 1)
  ELSE IF i > 0 /\ (i >= Len(prefix) \/ prefix[i + 1] = sep) THEN 1 ELSE 0

\* the loop of exechelp_str_has_prefix_on_sep from index i on
RECURSIVE prefix_on_sep_loop(_, _, _, _)
prefix_on_sep_loop(str, prefix, sep, i) ==
  IF i < Len(str) /\ i < Len(prefix) /\ prefix[i + 1] # sep
  THEN IF str[i + 1] # prefix[i + 1] /\ prefix[i + 1] # sep
       THEN 0
       ELSE prefix_on_sep_loop(str, prefix, sep, i + 1)
  ELSE IF i >= Len(prefix) \/ prefix[i + 1] = sep THEN 1 ELSE 0

\* exechelp_str_has_prefix_on_sep that takes a null str for a match
has_prefix_null_matches(str, prefix, sep) ==
  IF str = NULL \/ prefix = NULL THEN 1
  ELSE prefix_on_sep_loop(str, prefix, sep, 0)

\* exechelp_str_has_prefix_on_sep(str, prefix, sep): prefix points into the
\* list buffer, so it runs to the end of the list
exechelp_str_has_prefix_on_sep(str, prefix, sep) ==
  IF str = NULL \/ prefix = NULL THEN 0
  ELSE prefix_on_sep_loop(str, prefix, sep, 0)

\* the while loop of exechelp_file_list_contains_path with iter = managed + off
RECURSIVE contains_path_loop(_, _, _)

\* a loop that stops after its first line
contains_path_first_line(managed, real, off) ==
  IF off < Len(managed)
  THEN exechelp_str_has_prefix_on_sep(real, Suffix(managed, off),
                                      EXECHELP_FILE_SEPARATOR_CHR)
  ELSE 0

contains_path_loop(managed, real, off) ==
  IF off < Len(managed)
  THEN LET matched_a_line ==
             exechelp_str_has_prefix_on_sep(real, Suffix(managed, off),
                                            EXECHELP_FILE_SEPARATOR_CHR)
           nl == strstr(managed, <<EXECHELP_FILE_SEPARATOR_CHR>>, off)
       IN  IF matched_a_line # 0 THEN matched_a_line
           ELSE IF nl = -1 THEN 0
           ELSE contains_path_loop(managed, real, nl + 1)
  ELSE 0

\* exechelp_file_list_contains_path(managed, real)
exechelp_file_list_contains_path(managed, real) ==
  IF managed = NULL THEN 0
  ELSE contains_path_loop(managed, real, 0)

(***************************************************************************)
(* The file system the process runs in: a function from the canonical      *)
(* absolute name of every file to its node.  The operators below are the   *)
(* system calls the code makes (lstat, stat, readlink, access) and libc's  *)
(* realpath; errno values are strings, "OK" for success.                   *)
(***************************************************************************)
Dir(ino)      == [kind |-> "dir", target |-> <<>>, ino |-> ino, x |-> TRUE]
NoSearch(ino) == [kind |-> "dir", target |-> <<>>, ino |-> ino, x |-> FALSE]
Reg(ino, x)   == [kind |-> "reg", target |-> <<>>, ino |-> ino, x |-> x]
Lnk(ino, to)  == [kind |-> "lnk", target |-> to, ino |-> ino, x |-> TRUE]

ROOT == <<SLASH>>

\* s without its leading slashes
RECURSIVE SkipSlashes(_)
SkipSlashes(s) ==
  IF s # <<>> /\ Head(s) = SLASH THEN SkipSlashes(Tail(s)) ELSE s

\* length of the first component of s (s does not start with a slash)
RECURSIVE CompLen(_)
CompLen(s) ==
  IF s = <<>> \/ Head(s) = SLASH THEN 0 ELSE 1 + CompLen(Tail(s))

\* the canonical name of the parent directory of the canonical name p
RECURSIVE ParentOf(_)
ParentOf(p) ==
  IF Len(p) <= 1 THEN ROOT
  ELSE IF p[Len(p)] = SLASH
       THEN (IF Len(p) = 1 THEN ROOT ELSE SubSeq(p, 1, Len(p) - 1))
       ELSE ParentOf(SubSeq(p, 1, Len(p) - 1))

\* the canonical name of entry comp of the directory with canonical name dir
ChildOf(dir, comp) == IF dir = ROOT THEN dir \o comp ELSE dir \o <<SLASH>> \o comp

\* the kernel's path walk from directory cur over the name rest; follow says
\* whether a symbolic link in the last component is followed
RECURSIVE KWalk(_, _, _, _, _)

\* the walk at entry comp of directory cur, after being the rest of the name
KWalkEntry(fs, cur, comp, after, follow, hops) ==
  IF fs[cur].kind # "dir" THEN [err |-> "ENOTDIR", at |-> cur]
  ELSE IF ~fs[cur].x THEN [err |-> "EACCES", at |-> cur]
  ELSE IF comp = <<".">> THEN KWalk(fs, cur, after, follow, hops)
  ELSE IF comp = <<".", ".">> THEN KWalk(fs, ParentOf(cur), after, follow, hops)
  ELSE IF ChildOf(cur, comp) \notin DOMAIN fs THEN [err |-> "ENOENT", at |-> cur]
  ELSE IF fs[ChildOf(cur, comp)].kind = "lnk" /\ (follow \/ after # <<>>)
       THEN IF hops >= MaxSymlinkHops THEN [err |-> "ELOOP", at |-> cur]
            ELSE IF fs[ChildOf(cur, comp)].target = <<>>
                 THEN [err |-> "ENOENT", at |-> cur]
            ELSE KWalk(fs,
                       IF Head(fs[ChildOf(cur, comp)].target) = SLASH
                       THEN ROOT ELSE cur,
                       fs[ChildOf(cur, comp)].target \o after, follow, hops + 1)
  ELSE KWalk(fs, ChildOf(cur, comp), after, follow, hops)

\* the walk over s, the rest of the name without its leading slashes
KWalkFrom(fs, cur, rest, s, follow, hops) ==
  IF s = <<>>
  THEN IF rest # <<>> /\ fs[cur].kind # "dir"
       THEN [err |-> "ENOTDIR", at |-> cur]
       ELSE [err |-> "OK", at |-> cur]
  ELSE KWalkEntry(fs, cur, SubSeq(s, 1, CompLen(s)), Suffix(s, CompLen(s)),
                  follow, hops)

KWalk(fs, cur, rest, follow, hops) ==
  KWalkFrom(fs, cur, rest, SkipSlashes(rest), follow, hops)

\* the walk of a path name given to a system call by a process whose working
\* directory is cwd
KPath(w, path, follow) ==
  IF path = NULL THEN [err |-> "EFAULT", at |-> ROOT]
  ELSE IF path = <<>> THEN [err |-> "ENOENT", at |-> ROOT]
  ELSE KWalk(w.fs, IF Head(path) = SLASH THEN ROOT ELSE w.cwd, path, follow, 0)

\* what a stat call leaves in errno and *st, given the walk of its path
StatOf(w, r) ==
  [err |-> r.err, st |-> IF r.err = "OK" THEN w.fs[r.at] ELSE Reg(0, FALSE)]

\* lstat(path, &st) and stat(path, &st): errno and, on success, the node
sys_lstat(w, path) == StatOf(w, KPath(w, path, FALSE))

sys_stat(w, path) == StatOf(w, KPath(w, path, TRUE))

\* errno of access(path, X_OK), given the stat of path
AccessOf(r) ==
  IF r.err # "OK" THEN r.err ELSE IF r.st.x THEN "OK" ELSE "EACCES"

\* access(path, X_OK): errno
sys_access_x(w, path) == AccessOf(sys_stat(w, path))

\* the result of libc's realpath, given the walk of its path
RealpathOf(r) == IF r.err = "OK" THEN r.at ELSE NULL

\* libc realpath(file, NULL): the canonical name of an existing file, or NULL
libc_realpath(w, file) == RealpathOf(KPath(w, file, TRUE))

(***************************************************************************)
(* The path canonicalizer (realpath.c).                                    *)
(***************************************************************************)
CAN_EXISTING == 0
CAN_ALL_BUT_LAST == 1
CAN_MISSING == 2
CAN_NOLINKS == 4
AREAD_MAX_SIZE == 4096

\* the while loop of exechelp_coreutils_areadlink_with_size for a link of
\* link_length bytes: the size of the buffer that holds it, or -1 (ENOMEM)
RECURSIVE areadlink_loop(_, _)
areadlink_loop(link_length, buf_size) ==
  IF link_length < buf_size THEN buf_size
  ELSE IF buf_size <= AREAD_MAX_SIZE \div 2 THEN areadlink_loop(link_length, buf_size * 2)
  ELSE IF buf_size < AREAD_MAX_SIZE THEN areadlink_loop(link_length, AREAD_MAX_SIZE)
  ELSE -1

\* a buffer size that never stops doubling
areadlink_grown_unbounded(buf_size) == buf_size * 2

\* the buffer size after a value that did not fit into buf_size bytes: twice
\* the size, AREAD_MAX_SIZE from above its half, -1 (ENOMEM) at AREAD_MAX_SIZE
areadlink_grown(buf_size) ==
  IF buf_size <= AREAD_MAX_SIZE \div 2 THEN buf_size * 2
  ELSE IF buf_size < AREAD_MAX_SIZE THEN AREAD_MAX_SIZE
  ELSE -1

\* the initial buffer size of exechelp_coreutils_areadlink_with_size
areadlink_initial_size(size) ==
  LET symlink_max == 1024
  IN  IF size < symlink_max + 1 THEN size + 1 ELSE symlink_max + 1

\* exechelp_coreutils_areadlink_with_size(file, size) on a symbolic link whose
\* value is target (NULL when readlink fails): the value, or NULL and errno
exechelp_coreutils_areadlink_with_size(target, size) ==
  IF target = NULL THEN [buf |-> NULL, errno |-> "ENOENT"]
  ELSE IF areadlink_loop(Len(target), areadlink_initial_size(size)) = -1
       THEN [buf |-> NULL, errno |-> "ENOMEM"]
       ELSE [buf |-> target, errno |-> "OK"]

\* "Back up to previous component, ignore if at root already": rname is the
\* buffer up to dest
RECURSIVE BackUpTo(_)
BackUpTo(r) ==
  IF Len(r) > 0 /\ r[Len(r)] # SLASH THEN BackUpTo(SubSeq(r, 1, Len(r) - 1)) ELSE r

BackUp(rname) ==
  IF Len(rname) > 1 THEN BackUpTo(SubSeq(rname, 1, Len(rname) - 1)) ELSE rname

\* _exechelp_seen_triple(&h, filename, st): h maps a file name to the
\* <<dev, ino>> recorded for it; returns the int and the table afterwards
\* (every file of the model is on device 0)
seen_triple(h, filename, st) ==
  IF filename \in DOMAIN h /\ h[filename] = <<0, st.ino>>
  THEN [seen |-> 1, h |-> h]
  ELSE [seen |-> 0,
        h |-> [f \in DOMAIN h \cup {filename} |->
                 IF f = filename THEN <<0, st.ino>> ELSE h[f]]]

\* the results carry a history flag, loop: _exechelp_seen_triple returned 1
\* during the call
CanonFail(e) == [ok |-> FALSE, val |-> NULL, errno |-> e, loop |-> FALSE]

Looped(result) == [result EXCEPT !.loop = TRUE]

\* the end of _exechelp_canonicalize_filename_mode: a trailing slash is
\* dropped and rname returned
CanonDone(rname) ==
  [ok |-> TRUE, errno |-> "OK", loop |-> FALSE,
   val |-> IF Len(rname) > 1 /\ rname[Len(rname)] = SLASH
           THEN SubSeq(rname, 1, Len(rname) - 1) ELSE rname]

\* rname with the component comp copied to dest
CanonAppend(rname, comp) ==
  (IF rname[Len(rname)] # SLASH THEN Append(rname, SLASH) ELSE rname) \o comp

\* the for loop of _exechelp_canonicalize_filename_mode: rname is the output
\* up to dest, name the current input buffer, start the 0-based offset of the
\* loop variable in it, h the table of seen links, fuel the link expansions
\* left before the model gives the loop up as not terminating
RECURSIVE canon_loop(_, _, _, _, _, _, _, _)

\* canon_link with "if (can_mode == CAN_MISSING)" dropped: a link seen twice
\* is skipped in every mode
canon_link_skips(w, mode, logical, rname, name, end, fuel, sn, rl) ==
  IF sn.seen = 1
  THEN Looped(canon_loop(w, mode, logical, rname, name, end, sn.h, fuel))
  ELSE IF rl.buf = NULL
       THEN IF mode = CAN_MISSING /\ rl.errno # "ENOMEM"
            THEN canon_loop(w, mode, logical, rname, name, end, sn.h, fuel)
            ELSE CanonFail(rl.errno)
  ELSE IF fuel = 0 THEN CanonFail("DIVERGES")
  ELSE canon_loop(w, mode, logical,
                  IF rl.buf # <<>> /\ Head(rl.buf) = SLASH THEN ROOT
                  ELSE BackUp(rname),
                  rl.buf \o Suffix(name, end), 0, sn.h, fuel - 1)

\* the body "if (S_ISLNK (st.st_mode))" once the link was looked up in h (sn)
\* and read (rl); rname holds the link's own name, end is the offset after it
canon_link(w, mode, logical, rname, name, end, fuel, sn, rl) ==
  IF sn.seen = 1
  THEN IF mode = CAN_MISSING
       THEN Looped(canon_loop(w, mode, logical, rname, name, end, sn.h, fuel))
       ELSE Looped(CanonFail("ELOOP"))
  ELSE IF rl.buf = NULL
       THEN IF mode = CAN_MISSING /\ rl.errno # "ENOMEM"
            THEN canon_loop(w, mode, logical, rname, name, end, sn.h, fuel)
            ELSE CanonFail(rl.errno)
  ELSE IF fuel = 0 THEN CanonFail("DIVERGES")
  ELSE canon_loop(w, mode, logical,
                  IF rl.buf # <<>> /\ Head(rl.buf) = SLASH THEN ROOT
                  ELSE BackUp(rname),
                  rl.buf \o Suffix(name, end), 0, sn.h, fuel - 1)

\* the loop body after the component was copied to rname and stat'ed: sr is
\* the stat result, st_mode 0 (kind "none") where the code sets it so
canon_component(w, mode, logical, rname, name, end, h, fuel, sr) ==
  IF sr.err # "OK" /\ mode = CAN_EXISTING THEN CanonFail(sr.err)
  ELSE IF sr.err # "OK" /\ mode = CAN_ALL_BUT_LAST
       THEN IF SkipSlashes(Suffix(name, end)) # <<>> \/ sr.err # "ENOENT"
            THEN CanonFail(sr.err)
            ELSE canon_loop(w, mode, logical, rname, name, end, h, fuel)
  ELSE IF sr.err = "OK" /\ sr.st.kind = "lnk"
       THEN canon_link(w, mode, logical, rname, name, end, fuel,
                       seen_triple(h, name, sr.st),
                       exechelp_coreutils_areadlink_with_size(
                         sr.st.target, Len(sr.st.target)))
  ELSE IF ~(sr.err = "OK" /\ sr.st.kind = "dir") /\ Len(name) > end
          /\ mode # CAN_MISSING
       THEN CanonFail("ENOTDIR")
  ELSE canon_loop(w, mode, logical, rname, name, end, h, fuel)

\* the stat of the loop body: none when logical and CAN_MISSING
canon_stat(w, mode, logical, rname) ==
  IF logical /\ mode = CAN_MISSING THEN [err |-> "OK", st |-> [kind |-> "none"]]
  ELSE IF logical THEN sys_stat(w, rname) ELSE sys_lstat(w, rname)

\* the loop body for the component of name between the offsets s0 and end
canon_body(w, mode, logical, rname, name, start, s0, end, h, fuel) ==
  IF start >= Len(name) \/ end = s0 THEN CanonDone(rname)
  ELSE IF SubSeq(name, s0 + 1, end) = <<".">>
       THEN canon_loop(w, mode, logical, rname, name, end, h, fuel)
  ELSE IF SubSeq(name, s0 + 1, end) = <<".", ".">>
       THEN canon_loop(w, mode, logical, BackUp(rname), name, end, h, fuel)
  ELSE canon_component(w, mode, logical,
                       CanonAppend(rname, SubSeq(name, s0 + 1, end)), name, end, h,
                       fuel,
                       canon_stat(w, mode, logical,
                                  CanonAppend(rname, SubSeq(name, s0 + 1, end))))

\* the loop at s0, the offset of start after the slashes are skipped
canon_skip(w, mode, logical, rname, name, start, s0, h, fuel) ==
  canon_body(w, mode, logical, rname, name, start, s0,
             s0 + CompLen(Suffix(name, s0)), h, fuel)

canon_loop(w, mode, logical, rname, name, start, h, fuel) ==
  canon_skip(w, mode, logical, rname, name, start,
             Len(name) - Len(SkipSlashes(Suffix(name, start))), h, fuel)

\* canon_start that takes "~/" for the working directory
canon_start_home_ignored(w, name, mode, logical) ==
  IF mode = 3 THEN CanonFail("EINVAL")
  ELSE IF name = NULL THEN CanonFail("EINVAL")
  ELSE IF name = <<>> THEN CanonFail("ENOENT")
  ELSE IF Head(name) # SLASH
       THEN IF Head(name) = "~"
            THEN IF Len(name) < 2 \/ name[2] # SLASH THEN CanonFail("EINVAL")
                 ELSE canon_loop(w, mode, logical, w.cwd, name, 2, <<>>,
                                 MaxLinkExpansions)
            ELSE canon_loop(w, mode, logical, w.cwd, name, 0, <<>>,
                            MaxLinkExpansions)
  ELSE canon_loop(w, mode, logical, ROOT, name, 0, <<>>, MaxLinkExpansions)

\* _exechelp_canonicalize_filename_mode(name, can_mode) after can_mode was
\* split into the mode and the CAN_NOLINKS flag
canon_start(w, name, mode, logical) ==
  IF mode = 3 THEN CanonFail("EINVAL")
  ELSE IF name = NULL THEN CanonFail("EINVAL")
  ELSE IF name = <<>> THEN CanonFail("ENOENT")
  ELSE IF Head(name) # SLASH
       THEN IF Head(name) = "~"
            THEN IF Len(name) < 2 \/ name[2] # SLASH THEN CanonFail("EINVAL")
                 ELSE IF w.HOME = NULL THEN CanonFail("unset")
                 ELSE canon_loop(w, mode, logical, w.HOME, name, 2, <<>>,
                                 MaxLinkExpansions)
            ELSE canon_loop(w, mode, logical, w.cwd, name, 0, <<>>,
                            MaxLinkExpansions)
  ELSE canon_loop(w, mode, logical, ROOT, name, 0, <<>>, MaxLinkExpansions)

\* _exechelp_canonicalize_filename_mode(name, can_mode)
canonicalize_filename_mode(w, name, can_mode) ==
  canon_start(w, name, can_mode % CAN_NOLINKS, can_mode >= CAN_NOLINKS)

\* the second call of exechelp_coreutils_realpath, on the first one's result
realpath_again(w, can_fname, can_mode) ==
  IF can_fname.ok THEN canonicalize_filename_mode(w, can_fname.val, can_mode).val
  ELSE NULL

\* the first call of exechelp_coreutils_realpath: can_mode is CAN_MISSING
realpath_can_fname(w, fname) == canonicalize_filename_mode(w, fname, CAN_MISSING)

\* exechelp_coreutils_realpath(fname): NULL on failure
exechelp_coreutils_realpath(w, fname) ==
  realpath_again(w, realpath_can_fname(w, fname), CAN_MISSING)

(***************************************************************************)
(* Search-path resolution (common.c).                                      *)
(***************************************************************************)
\* confstr(_CS_PATH): the system default search path
CS_PATH == <<"/", "b">>

\* the do-while loop of exechelp_resolve_path with path = PATH + off
RECURSIVE resolve_path_loop(_, _, _, _)

\* resolve_path_try going on after a hit: the last hit is returned
resolve_path_try_last(w, path, file, p, startp, err) ==
  IF err = "OK" /\ p >= Len(path) THEN startp
  ELSE IF err = "OK" /\ resolve_path_loop(w, path, file, p + 1) = NULL THEN startp
  ELSE IF err = "OK" THEN resolve_path_loop(w, path, file, p + 1)
  ELSE IF err \notin {"EACCES", "ENOENT", "ENAMETOOLONG", "ENOTDIR", "ELOOP",
                      "EROFS", "ETXTBSY"}
       THEN NULL
  ELSE IF p >= Len(path) THEN NULL
  ELSE resolve_path_loop(w, path, file, p + 1)

\* the loop body after access(startp, X_OK) left err in errno; p is the
\* offset of the colon or of the end of PATH
resolve_path_try(w, path, file, p, startp, err) ==
  IF err = "OK" THEN startp
  ELSE IF err \notin {"EACCES", "ENOENT", "ENAMETOOLONG", "ENOTDIR", "ELOOP",
                      "EROFS", "ETXTBSY"}
       THEN NULL
  ELSE IF p >= Len(path) THEN NULL
  ELSE resolve_path_loop(w, path, file, p + 1)

\* a loop body that puts a slash before the file name for an empty entry too
resolve_path_entry_root(w, path, file, off, p) ==
  resolve_path_try(w, path, file, p,
                   SubSeq(path, off + 1, p) \o <<SLASH>> \o file,
                   sys_access_x(w, SubSeq(path, off + 1, p) \o <<SLASH>> \o file))

\* the loop body for the entry of PATH between the offsets off and p
resolve_path_entry(w, path, file, off, p) ==
  resolve_path_try(w, path, file, p,
                   IF p = off THEN file
                   ELSE SubSeq(path, off + 1, p) \o <<SLASH>> \o file,
                   sys_access_x(w, IF p = off THEN file
                                   ELSE SubSeq(path, off + 1, p) \o <<SLASH>> \o file))

resolve_path_loop(w, path, file, off) ==
  resolve_path_entry(w, path, file, off,
                     IF strstr(path, <<":">>, off) = -1 THEN Len(path)
                     ELSE strstr(path, <<":">>, off))

\* exechelp_resolve_path(file)
exechelp_resolve_path(w, file) ==
  IF file = NULL \/ file = <<>> THEN NULL
  ELSE IF strchr_found(file, SLASH) THEN libc_realpath(w, file)
  ELSE resolve_path_loop(w, IF w.PATH = NULL THEN <<":">> \o CS_PATH ELSE w.PATH,
                         file, 0)

(***************************************************************************)
(* The policy-file cache (common.c).                                       *)
(***************************************************************************)
EXECHELP_HELPER_BINS_PATH   == "/etc/firejail/self/helper-bins.list"
EXECHELP_MANAGED_BINS_PATH  == "/etc/firejail/self/managed-bins.list"
EXECHELP_MANAGED_FILES_PATH == "/etc/firejail/self/managed-files.list"

PolicyPaths ==
  {EXECHELP_HELPER_BINS_PATH, EXECHELP_MANAGED_BINS_PATH, EXECHELP_MANAGED_FILES_PATH}

\* a policy file as the system calls see it: stat_ok and st_mtime for stat,
\* open_ok for fopen, contents for fread
PolicyFile(stat_ok, st_mtime, open_ok, contents) ==
  [stat_ok |-> stat_ok, st_mtime |-> st_mtime, open_ok |-> open_ok,
   contents |-> contents]

\* t with key k bound to value v (exechelp_hash_table_remove, then _insert)
TableSet(t, k, v) == [x \in DOMAIN t \cup {k} |-> IF x = k THEN v ELSE t[x]]

\* last_access read from sb whether or not stat succeeded
last_access_unchecked(f) == f.st_mtime

\* last_access after "if (stat(file_path, &sb) == 0)": 0 when stat fails
last_access_of(f) == IF f.stat_ok THEN f.st_mtime ELSE 0

\* cached_access after the lookup in the table mtime: 0 when the key is absent
cached_access_of(tb, file_path) ==
  IF file_path \in DOMAIN tb.mtime THEN tb.mtime[file_path] ELSE 0

\* must_refresh true only for a path that was never loaded
must_refresh_once(last_access, cached_access) ==
  cached_access = 0 /\ last_access > 0

\* must_refresh with the comparison also true on equal times
must_refresh_on_equal(last_access, cached_access) == last_access >= cached_access

\* must_refresh = (last_access > cached_access)
must_refresh(last_access, cached_access) == last_access > cached_access

\* the tables after a reload that leaves the table mtime as it was
tables_after_refresh_cache_only(tb, file_path, new_list, last_access) ==
  [cache |-> TableSet(tb.cache, file_path, new_list), mtime |-> tb.mtime]

\* the tables after the two removes and the two inserts of a reload
tables_after_refresh(tb, file_path, new_list, last_access) ==
  [cache |-> TableSet(tb.cache, file_path, new_list),
   mtime |-> TableSet(tb.mtime, file_path, last_access)]

\* the final lookup in the table cache: NULL when the key is absent
cached_list(tb, file_path) ==
  IF file_path \in DOMAIN tb.cache THEN tb.cache[file_path] ELSE NULL

\* exechelp_read_list_from_file(file_path) with the static tables cache and
\* mtime in state tb: the returned pointer, the tables afterwards, and
\* whether fopen was called
exechelp_read_list_from_file(w, tb, file_path) ==
  IF must_refresh(last_access_of(w.pol[file_path]), cached_access_of(tb, file_path))
  THEN IF w.pol[file_path].open_ok
       THEN [list |-> w.pol[file_path].contents,
             tb   |-> tables_after_refresh(tb, file_path, w.pol[file_path].contents,
                                           last_access_of(w.pol[file_path])),
             opened |-> TRUE]
       ELSE [list |-> cached_list(tb, file_path), tb |-> tb, opened |-> TRUE]
  ELSE [list |-> cached_list(tb, file_path), tb |-> tb, opened |-> FALSE]

(***************************************************************************)
(* The execution policy and the decision pipeline (exechelper.h, lib.c).   *)
(***************************************************************************)
NOTHING == 0
HELPERS == 1
UNSPECIFIED == 2
SANDBOX_MANAGED == 4
SANDBOX_ITSELF == 8

RECURSIVE BitAnd(_, _)
BitAnd(a, b) ==
  IF a = 0 \/ b = 0 THEN 0
  ELSE 2 * BitAnd(a \div 2, b \div 2) + (IF a % 2 = 1 /\ b % 2 = 1 THEN 1 ELSE 0)

BitOr(a, b) == a + b - BitAnd(a, b)

\* a policy of HELPERS alone
POLICY_HELPERS_ALONE == HELPERS

EXECHELP_DEFAULT_POLICY == BitOr(HELPERS, UNSPECIFIED)

\* the null pointer to an array (argv, the decision array): every array of
\* the model has at least one element
NULL_ARRAY == <<>>

\* what lies in memory beyond the end of an array the code reads past
BEYOND == <<"<beyond>">>

\* found = (strstr(list, target) != NULL) on the list read as r
ListNames(target, r) ==
  IF r.list = NULL THEN [found |-> 0, tb |-> r.tb]
  ELSE [found |-> IF strstr(r.list, target, 0) # -1 THEN 1 ELSE 0, tb |-> r.tb]

\* exechelp_is_associated_helper_client(target)
exechelp_is_associated_helper_client(w, tb, target) ==
  IF target = NULL THEN [found |-> 0, tb |-> tb]
  ELSE ListNames(target,
                 exechelp_read_list_from_file(w, tb, EXECHELP_HELPER_BINS_PATH))

\* exechelp_is_sandbox_managed_app(target)
exechelp_is_sandbox_managed_app(w, tb, target) ==
  IF target = NULL THEN [found |-> 0, tb |-> tb]
  ELSE ListNames(target,
                 exechelp_read_list_from_file(w, tb, EXECHELP_MANAGED_BINS_PATH))

\* short is_file of the loop body of exechelp_targets_sandbox_managed_file,
\* given errno of stat(real, &sb)
is_file_of(arg, e) ==
  IF strchr_found(arg, SLASH) THEN 1
  ELSE IF e = "OK" THEN 1
  ELSE IF e \in {"EACCES", "ELOOP", "EOVERFLOW"} THEN 1 ELSE 0

arg_is_file(w, arg, real) == is_file_of(arg, sys_stat(w, real).err)

\* the tag stored in ret[len] for an argument whose canonical form is real
tag_of_real(managed, real) ==
  IF exechelp_file_list_contains_path(managed, real) # 0
  THEN SANDBOX_MANAGED ELSE UNSPECIFIED

\* the loop of exechelp_targets_sandbox_managed_file over argv, whose
\* canonical forms are reals, with the list read as r: the decision array
\* (NULL_ARRAY for the null pointer), the is_file value computed for every
\* argument, and the cache tables afterwards.  argv holds its len strings,
\* the array returned len + 1 tags, the last one left 0 by exechelp_malloc0
classify_args(w, argv, reals, r) ==
  IF r.list = NULL
  THEN [decisions |-> NULL_ARRAY, is_file |-> <<>>, reals |-> <<>>, tb |-> r.tb]
  ELSE [decisions |->
          [i \in 1..(Len(argv) + 1) |->
             IF i = 1 THEN HELPERS
             ELSE IF i = Len(argv) + 1 THEN NOTHING
             ELSE tag_of_real(r.list, reals[i])],
        is_file |->
          [i \in 1..Len(argv) |->
             IF i = 1 THEN 1 ELSE arg_is_file(w, argv[i], reals[i])],
        reals |-> reals,
        tb |-> r.tb]

\* exechelp_targets_sandbox_managed_file(target, argv)
exechelp_targets_sandbox_managed_file(w, tb, target, argv) ==
  classify_args(w, argv,
                [i \in 1..Len(argv) |->
                   IF i = 1 THEN NULL ELSE exechelp_coreutils_realpath(w, argv[i])],
                exechelp_read_list_from_file(w, tb, EXECHELP_MANAGED_FILES_PATH))

\* the while loop of exechelp_filter_forbidden_exec over the decision array,
\* iter = decisions + i, keeping only the last argument's verdict
RECURSIVE scan_decisions_last_loop(_, _, _)
scan_decisions_last_loop(decisions, i, have_forbidden) ==
  IF i < Len(decisions) /\ decisions[i + 1] # NOTHING
  THEN scan_decisions_last_loop(
         decisions, i + 1,
         IF BitAnd(decisions[i + 1], BitOr(HELPERS, UNSPECIFIED)) = 0 THEN 1 ELSE 0)
  ELSE have_forbidden

scan_decisions_last(decisions) == scan_decisions_last_loop(decisions, 1, 0)

\* the while loop of exechelp_filter_forbidden_exec over the decision array,
\* iter = decisions + i
RECURSIVE scan_decisions_loop(_, _, _)
scan_decisions_loop(decisions, i, have_forbidden) ==
  IF i < Len(decisions) /\ decisions[i + 1] # NOTHING
  THEN scan_decisions_loop(
         decisions, i + 1,
         IF BitAnd(decisions[i + 1], BitOr(HELPERS, UNSPECIFIED)) = 0
         THEN 1 ELSE have_forbidden)
  ELSE have_forbidden

\* have_forbidden after the scan of the decision array
scan_decisions(decisions) == scan_decisions_loop(decisions, 1, 0)

\* memcpy(copy, argv + 1, sizeof(char *) * nptr): the copy started one
\* pointer too far
argv_copy_from1(argv, nptr) ==
  [i \in 1..nptr |->
     IF i + 1 <= Len(argv) THEN argv[i + 1]
     ELSE IF i + 1 = Len(argv) + 1 THEN NULL ELSE BEYOND]

\* memcpy(copy, argv, sizeof(char *) * nptr): the first nptr pointers found
\* at argv, whose strings are followed by the terminating NULL
argv_copy(argv, nptr) ==
  [i \in 1..nptr |->
     IF i <= Len(argv) THEN argv[i] ELSE IF i = Len(argv) + 1 THEN NULL ELSE BEYOND]

\* the argument vector an exec call reads from an array: up to the first NULL
RECURSIVE UpToNull(_)
UpToNull(slots) ==
  IF slots = <<>> \/ Head(slots) = NULL THEN <<>>
  ELSE <<Head(slots)>> \o UpToNull(Tail(slots))

\* the outputs of exechelp_filter_forbidden_exec that no branch has set
NoDecision(tb) ==
  [ret |-> 0, fault |-> FALSE,
   allowed_exec |-> NULL, allowed_argv |-> NULL_ARRAY, allowed_alloc |-> 0,
   forbidden_exec |-> NULL, forbidden_argv |-> NULL_ARRAY, forbidden_alloc |-> 0,
   decisions |-> NULL_ARRAY, is_file |-> <<>>, reals |-> <<>>, tb |-> tb]

\* the label binary_forbidden of exechelp_filter_forbidden_exec; arg_len
\* counts the strings of argv and its terminating NULL
binary_forbidden(target, argv, cls) ==
  [NoDecision(cls.tb) EXCEPT
     !.forbidden_exec = target,
     !.forbidden_argv = argv_copy(argv, Len(argv) + 2),
     !.forbidden_alloc = Len(argv) + 2,
     !.decisions = cls.decisions, !.is_file = cls.is_file, !.reals = cls.reals]

\* the label binary_clear once the arguments are classified as cls: the read
\* through the null decision array is a fault
binary_clear_scan(target, argv, cls) ==
  IF cls.decisions = NULL_ARRAY THEN [NoDecision(cls.tb) EXCEPT !.fault = TRUE]
  ELSE IF scan_decisions(cls.decisions) # 0 THEN binary_forbidden(target, argv, cls)
  ELSE [NoDecision(cls.tb) EXCEPT
          !.ret = 1,
          !.allowed_exec = target,
          !.allowed_argv = argv_copy(argv, Len(argv) + 2),
          !.allowed_alloc = Len(argv) + 1,
          !.decisions = cls.decisions, !.is_file = cls.is_file,
          !.reals = cls.reals]

\* the label binary_clear of exechelp_filter_forbidden_exec
binary_clear(w, tb, target, argv) ==
  binary_clear_scan(target, argv,
                    exechelp_targets_sandbox_managed_file(w, tb, target, argv))

\* the branches of exechelp_filter_forbidden_exec after the helper test
\* failed; managed is the result of exechelp_is_sandbox_managed_app
filter_managed(w, pol, target, argv, managed) ==
  IF managed.found # 0 /\ BitAnd(pol, SANDBOX_MANAGED) # 0
  THEN binary_clear(w, managed.tb, target, argv)
  ELSE IF BitAnd(pol, UNSPECIFIED) # 0
       THEN binary_clear(w, managed.tb, target, argv)
  ELSE binary_forbidden(target, argv,
                        [decisions |-> NULL_ARRAY, is_file |-> <<>>,
                         reals |-> <<>>, tb |-> managed.tb])

\* the branches of exechelp_filter_forbidden_exec; helper is the result of
\* exechelp_is_associated_helper_client
filter_target(w, pol, target, argv, helper) ==
  IF helper.found # 0 /\ BitAnd(pol, HELPERS) # 0
  THEN binary_clear(w, helper.tb, target, argv)
  ELSE filter_managed(w, pol, target, argv,
                      exechelp_is_sandbox_managed_app(w, helper.tb, target))

\* exechelp_filter_forbidden_exec(target, argv, envp, ...): the four output
\* pointers, the decision array it scanned, the cache tables afterwards, and
\* fault when it reads through the null decision array
exechelp_filter_forbidden_exec(w, tb, target, argv) ==
  IF target = NULL \/ argv = NULL_ARRAY THEN NoDecision(tb)
  ELSE filter_target(w, EXECHELP_DEFAULT_POLICY, target, argv,
                     exechelp_is_associated_helper_client(w, tb, target))

(***************************************************************************)
(* Dispatch (lib.c): the exec calls the three entry points make.           *)
(***************************************************************************)
\* EXECHELP_MONITORED_EXEC_PATH, "/firejail/denied/"
EXECHELP_MONITORED_EXEC_PATH ==
  <<"/", "f", "i", "r", "e", "j", "a", "i", "l", "/", "d", "e", "n", "i", "e", "d", "/">>

\* snprintf(buf, size, "%s%s", a, b): at most size - 1 bytes are stored
snprintf2(size, a, b) ==
  LET whole == a \o b
  IN  IF size = 0 THEN <<>>
      ELSE IF Len(whole) <= size - 1 THEN whole ELSE SubSeq(whole, 1, size - 1)

\* altered_path with altered_len computed without the byte of the NUL
altered_path_nonul(forbidden_exec) ==
  LET f == IF forbidden_exec # NULL THEN forbidden_exec ELSE <<>>
      altered_len == Len(EXECHELP_MONITORED_EXEC_PATH) + Len(f)
  IN  snprintf2(altered_len, EXECHELP_MONITORED_EXEC_PATH, f)

\* altered_path as the notify block builds it
altered_path(forbidden_exec) ==
  LET f == IF forbidden_exec # NULL THEN forbidden_exec ELSE <<>>
      altered_len == Len(EXECHELP_MONITORED_EXEC_PATH) + Len(f) + 1
  IN  snprintf2(altered_len, EXECHELP_MONITORED_EXEC_PATH, f)

\* one call of a real exec function: fn is the function called, path its
\* path or file argument (NULL for fexecve), fd its descriptor (-1 for the
\* others), argv the vector it reads
ExecCall(kind, fn, path, fd, argv, envp) ==
  [kind |-> kind, fn |-> fn, path |-> path, fd |-> fd, argv |-> UpToNull(argv),
   envp |-> envp]

\* whether the kernel runs a file, given its stat: a regular executable file
RunsOf(r) == r.err = "OK" /\ r.st.kind = "reg" /\ r.st.x

\* whether the real exec function of the call replaces the process image
exec_target_runs(w, call) ==
  IF call.fn = "execve" THEN RunsOf(sys_stat(w, call.path))
  ELSE IF call.fn = "execvpe"
       THEN RunsOf(sys_stat(w, exechelp_resolve_path(w, call.path)))
  ELSE call.fd \in DOMAIN w.fds /\ RunsOf(sys_stat(w, w.fds[call.fd]))

\* the name of the real function the notify block of an entry point calls
notify_fn(entry) == IF entry = "execvpe" THEN "execvpe" ELSE "execve"

\* the exec calls of the block "if (forbidden_exec)", run whether or not a
\* forbidden half was set
notify_block_unguarded(c) ==
  <<ExecCall("sentinel", notify_fn(c.entry), altered_path(c.forbidden_exec), -1,
             c.forbidden_argv, c.envp)>>

\* the exec calls of the block "if (forbidden_exec)" of the entry points
notify_block(c) ==
  IF c.forbidden_exec # NULL
  THEN <<ExecCall("sentinel", notify_fn(c.entry), altered_path(c.forbidden_exec), -1,
                  c.forbidden_argv, c.envp)>>
  ELSE <<>>

\* the exec calls of the block "if (allowed_exec)", with the else between
\* the two calls of execvpe and fexecve left out
allowed_block_noelse(c) ==
  IF c.allowed_exec = NULL THEN <<>>
  ELSE IF c.entry = "execve"
       THEN <<ExecCall("allowed", "execve", c.allowed_exec, -1, c.allowed_argv, c.envp)>>
  ELSE IF c.entry = "execvpe"
       THEN <<ExecCall("allowed", "execvpe", c.file, -1, c.allowed_argv, c.envp),
              ExecCall("allowed", "execvpe", c.allowed_exec, -1, c.allowed_argv, c.envp)>>
  ELSE <<ExecCall("allowed", "fexecve", NULL, c.fd, c.allowed_argv, c.envp),
         ExecCall("allowed", "execve", c.allowed_exec, -1, c.allowed_argv, c.envp)>>

\* the exec calls of the block "if (allowed_exec)" of the entry points
allowed_block(c) ==
  IF c.allowed_exec = NULL THEN <<>>
  ELSE IF c.entry = "execve"
       THEN <<ExecCall("allowed", "execve", c.allowed_exec, -1, c.allowed_argv, c.envp)>>
  ELSE IF c.entry = "execvpe"
       THEN IF c.path = c.allowed_exec
            THEN <<ExecCall("allowed", "execvpe", c.file, -1, c.allowed_argv, c.envp)>>
            ELSE <<ExecCall("allowed", "execvpe", c.allowed_exec, -1, c.allowed_argv,
                            c.envp)>>
  ELSE IF c.path = c.allowed_exec
       THEN <<ExecCall("allowed", "fexecve", NULL, c.fd, c.allowed_argv, c.envp)>>
       ELSE <<ExecCall("allowed", "execve", c.allowed_exec, -1, c.allowed_argv, c.envp)>>

\* the exec calls of an entry point with the allowed block placed first and
\* the notification sent whenever the allowed exec returns
dispatch_allowed_first(c) == allowed_block(c) \o notify_block_unguarded(c)

\* the exec calls an entry point makes after the filter, in program order:
\* the notify block, then the allowed block
dispatch(c) == notify_block(c) \o allowed_block(c)

\* ret_value and errno of the else branch of "if (allowed_exec)", keeping
\* the errno the notification left
refuse_keep_errno(errno) == [ret_value |-> -1, errno |-> errno]

\* ret_value and errno of the else branch of "if (allowed_exec)"
refuse(errno) == [ret_value |-> -1, errno |-> "EACCES"]

(***************************************************************************)
(* The hash table (hash.c).  A table is the struct with its three arrays;  *)
(* C index i is position i + 1 of the sequences.  Keys are strings, values *)
(* are small integers standing for pointers, 0 for NULL.  shared says that *)
(* keys and values are one array (hash_table->keys == hash_table->values). *)
(* The destroy functions are "NULL" or the name of the function.  An       *)
(* operation returns the table, the keys and values handed to the destroy  *)
(* functions in call order, and whether a NULL function was called.        *)
(***************************************************************************)
HASH_TABLE_MIN_SHIFT == 3
UNUSED_HASH_VALUE == 0
TOMBSTONE_HASH_VALUE == 1
HASH_IS_UNUSED(h) == h = UNUSED_HASH_VALUE
HASH_IS_TOMBSTONE(h) == h = TOMBSTONE_HASH_VALUE
HASH_IS_REAL(h) == h >= 2

prime_mod == <<1, 2, 3, 7, 13, 31, 61, 127, 251, 509>>

NoFunc == "NULL"

\* 1 << shift
RECURSIVE ShiftLeft1(_)
ShiftLeft1(shift) == IF shift = 0 THEN 1 ELSE 2 * ShiftLeft1(shift - 1)

\* the bytes of the keys
CharCode == [c \in {"a", "b", "A", "B"} |->
               CASE c = "a" -> 97 [] c = "b" -> 98 [] c = "A" -> 65 [] c = "B" -> 66]

\* h = (h << 5) + h + c on uint32_t, computed on two 16 bit halves
hash_add(hi, lo) == ((hi % 65536) * 65536) + (lo % 65536)
hash_step(h, c) ==
  hash_add((h \div 65536) * 33 + ((h % 65536) * 33 + c) \div 65536,
           (h % 65536) * 33 + c)

RECURSIVE str_hash_loop(_, _, _)
str_hash_loop(v, i, h) ==
  IF i > Len(v) THEN h ELSE str_hash_loop(v, i + 1, hash_step(h, CharCode[v[i]]))

exechelp_str_hash(v) == str_hash_loop(v, 1, 5381)

exechelp_str_equal(v1, v2) == v1 = v2

\* what an operation returns
HashResult(t, keys_destroyed, values_destroyed, fault, ret) ==
  [t |-> t, keys_destroyed |-> keys_destroyed,
   values_destroyed |-> values_destroyed, fault |-> fault, ret |-> ret]

\* the destroy functions run by r1, then those run by r2, the table of r2
HashThen(r1, r2) ==
  HashResult(r2.t, r1.keys_destroyed \o r2.keys_destroyed,
             r1.values_destroyed \o r2.values_destroyed, r2.fault, r2.ret)

\* exechelp_malloc0 of the arrays; keys and values are one array
fresh_storage(t) ==
  [t EXCEPT !.keys = [i \in 1..t.size |-> NULL],
            !.values = [i \in 1..t.size |-> 0],
            !.hashes = [i \in 1..t.size |-> UNUSED_HASH_VALUE],
            !.shared = TRUE]

exechelp_hash_table_set_shift(t, shift) ==
  [t EXCEPT !.size = ShiftLeft1(shift), !.mod = prime_mod[shift + 1],
            !.mask = ShiftLeft1(shift) - 1]

RECURSIVE closest_shift_loop(_, _)
closest_shift_loop(n, i) == IF n = 0 THEN i ELSE closest_shift_loop(n \div 2, i + 1)

exechelp_hash_table_find_closest_shift(n) == closest_shift_loop(n, 0)

exechelp_hash_table_set_shift_from_size(t, size) ==
  exechelp_hash_table_set_shift(
    t, IF exechelp_hash_table_find_closest_shift(size) > HASH_TABLE_MIN_SHIFT
       THEN exechelp_hash_table_find_closest_shift(size)
       ELSE HASH_TABLE_MIN_SHIFT)

\* the NULL table pointer
NoTable == [null |-> TRUE, freed |-> FALSE]

exechelp_hash_table_new_full(key_destroy_func, value_destroy_func) ==
  fresh_storage(
    exechelp_hash_table_set_shift(
      [null |-> FALSE, size |-> 0, mod |-> 0, mask |-> 0, nnodes |-> 0,
       noccupied |-> 0, keys |-> <<>>, hashes |-> <<>>, values |-> <<>>,
       shared |-> TRUE, ref_count |-> 1,
       key_destroy_func |-> key_destroy_func,
       value_destroy_func |-> value_destroy_func, freed |-> FALSE],
      HASH_TABLE_MIN_SHIFT))

exechelp_hash_table_new == exechelp_hash_table_new_full(NoFunc, NoFunc)

\* *hash_return of exechelp_hash_table_lookup_node
hash_return(key) ==
  IF HASH_IS_REAL(exechelp_str_hash(key)) THEN exechelp_str_hash(key) ELSE 2

\* the while loop of exechelp_hash_table_lookup_node
RECURSIVE lookup_node_loop(_, _, _, _, _, _, _)
lookup_node_loop(t, key, hash_value, node_index, step, first_tombstone, have_tombstone) ==
  IF HASH_IS_UNUSED(t.hashes[node_index + 1])
  THEN IF have_tombstone THEN first_tombstone ELSE node_index
  ELSE IF t.hashes[node_index + 1] = hash_value
          /\ exechelp_str_equal(t.keys[node_index + 1], key)
  THEN node_index
  ELSE lookup_node_loop(
         t, key, hash_value, (node_index + step + 1) % (t.mask + 1), step + 1,
         IF HASH_IS_TOMBSTONE(t.hashes[node_index + 1]) /\ ~have_tombstone
         THEN node_index ELSE first_tombstone,
         have_tombstone \/ HASH_IS_TOMBSTONE(t.hashes[node_index + 1]))

exechelp_hash_table_lookup_node(t, key) ==
  lookup_node_loop(t, key, hash_return(key), hash_return(key) % t.mod, 0, 0, FALSE)

\* exechelp_hash_table_remove_node with no tombstone erected
remove_node_unused(t, i, notify) ==
  HashResult([t EXCEPT !.hashes[i + 1] = UNUSED_HASH_VALUE,
                       !.keys[i + 1] = NULL, !.values[i + 1] = 0,
                       !.nnodes = @ - 1],
             <<>>, <<>>, FALSE, 1)

\* the calls of the destroy functions that are set, on one key and one value
notified(t, notify, key, value) ==
  HashResult(t,
             IF notify /\ t.key_destroy_func # NoFunc THEN <<key>> ELSE <<>>,
             IF notify /\ t.value_destroy_func # NoFunc THEN <<value>> ELSE <<>>,
             FALSE, 1)

exechelp_hash_table_remove_node(t, i, notify) ==
  notified([t EXCEPT !.hashes[i + 1] = TOMBSTONE_HASH_VALUE,
                     !.keys[i + 1] = NULL, !.values[i + 1] = 0,
                     !.nnodes = @ - 1],
           notify, t.keys[i + 1], t.values[i + 1])

\* the for loop of exechelp_hash_table_remove_all_nodes over the old storage
\* from index i on; ub is what the call of the NULL key_destroy_func does in
\* this build: "segv" stops the process, "elided" does nothing
RECURSIVE remove_all_loop(_, _, _, _, _, _)
remove_all_loop(old, t, i, ub, keys_destroyed, values_destroyed) ==
  IF i >= old.size THEN HashResult(t, keys_destroyed, values_destroyed, FALSE, 0)
  ELSE IF ~HASH_IS_REAL(old.hashes[i + 1])
  THEN remove_all_loop(old, t, i + 1, ub, keys_destroyed, values_destroyed)
  ELSE IF old.key_destroy_func = NoFunc /\ ub = "segv"
  THEN HashResult(t, keys_destroyed, values_destroyed, TRUE, 0)
  ELSE remove_all_loop(old, t, i + 1, ub, keys_destroyed,
                       IF old.value_destroy_func # NoFunc
                       THEN Append(values_destroyed, old.values[i + 1])
                       ELSE values_destroyed)

\* the storage after "Now create a new storage space"
storage_after_remove_all(t, destruction) ==
  IF ~destruction THEN fresh_storage(t)
  ELSE [t EXCEPT !.keys = <<>>, !.values = <<>>, !.hashes = <<>>, !.shared = TRUE]

exechelp_hash_table_remove_all_nodes(t, notify, destruction, ub) ==
  IF t.nnodes = 0 THEN HashResult(t, <<>>, <<>>, FALSE, 0)
  ELSE IF ~notify \/ (t.key_destroy_func = NoFunc /\ t.value_destroy_func = NoFunc)
  THEN HashResult(
         IF ~destruction
         THEN [t EXCEPT !.nnodes = 0, !.noccupied = 0,
                        !.keys = [i \in 1..t.size |-> NULL],
                        !.values = [i \in 1..t.size |-> 0],
                        !.hashes = [i \in 1..t.size |-> UNUSED_HASH_VALUE]]
         ELSE [t EXCEPT !.nnodes = 0, !.noccupied = 0],
         <<>>, <<>>, FALSE, 0)
  ELSE remove_all_loop(
         t,
         storage_after_remove_all(
           exechelp_hash_table_set_shift(
             [t EXCEPT !.nnodes = 0, !.noccupied = 0], HASH_TABLE_MIN_SHIFT),
           destruction),
         0, ub, <<>>, <<>>)

\* the while loop of exechelp_hash_table_resize: the free slot for a hash
RECURSIVE resize_probe(_, _, _, _)
resize_probe(new_hashes, hash_val, step, mask) ==
  IF HASH_IS_UNUSED(new_hashes[hash_val + 1]) THEN hash_val
  ELSE resize_probe(new_hashes, (hash_val + step + 1) % (mask + 1), step + 1, mask)

\* new with the node at index i of old stored at index at
resize_store(old, new, i, at) ==
  [new EXCEPT !.hashes[at + 1] = old.hashes[i + 1],
              !.keys[at + 1] = old.keys[i + 1],
              !.values[at + 1] = old.values[i + 1]]

\* the for loop of exechelp_hash_table_resize from index i of the old storage
RECURSIVE resize_loop(_, _, _)
resize_loop(old, new, i) ==
  IF i >= old.size THEN new
  ELSE IF ~HASH_IS_REAL(old.hashes[i + 1]) THEN resize_loop(old, new, i + 1)
  ELSE resize_loop(old,
                   resize_store(old, new, i,
                                resize_probe(new.hashes, old.hashes[i + 1] % new.mod,
                                             0, new.mask)),
                   i + 1)

\* the new arrays of exechelp_hash_table_resize: one array for keys and
\* values if the old ones were one array
resize_storage(t, shared) == [fresh_storage(t) EXCEPT !.shared = shared]

\* exechelp_hash_table_resize that leaves the count of occupied slots
resize_keeps_noccupied(t) ==
  resize_loop(t,
              resize_storage(
                exechelp_hash_table_set_shift_from_size(t, t.nnodes * 2), t.shared),
              0)

exechelp_hash_table_resize(t) ==
  [resize_loop(t,
               resize_storage(
                 exechelp_hash_table_set_shift_from_size(t, t.nnodes * 2), t.shared),
               0)
     EXCEPT !.noccupied = t.nnodes]

exechelp_hash_table_maybe_resize(t) ==
  IF (t.size > t.nnodes * 4 /\ t.size > ShiftLeft1(HASH_TABLE_MIN_SHIFT))
     \/ t.size <= t.noccupied + (t.noccupied \div 16)
  THEN exechelp_hash_table_resize(t)
  ELSE t

\* step one and step three of exechelp_hash_table_insert_node: the key, the
\* hash and the value written at node_index; writing a value splits the two
\* arrays
insert_written(t, node_index, key_hash, new_key, new_value, keep_new_key) ==
  [t EXCEPT !.hashes[node_index + 1] =
              IF HASH_IS_REAL(@) THEN @ ELSE key_hash,
            !.keys[node_index + 1] =
              IF HASH_IS_REAL(t.hashes[node_index + 1]) /\ ~keep_new_key
              THEN @ ELSE new_key,
            !.values[node_index + 1] = new_value,
            !.shared = FALSE]

\* "Now, the bookkeeping..." for a node that did not exist
insert_counted(t, old_hash) ==
  IF HASH_IS_UNUSED(old_hash)
  THEN exechelp_hash_table_maybe_resize(
         [t EXCEPT !.nnodes = @ + 1, !.noccupied = @ + 1])
  ELSE [t EXCEPT !.nnodes = @ + 1]

exechelp_hash_table_insert_node(t, node_index, key_hash, new_key, new_value, keep_new_key, reusing_key) ==
  IF HASH_IS_REAL(t.hashes[node_index + 1])
  THEN HashResult(
         insert_written(t, node_index, key_hash, new_key, new_value, keep_new_key),
         IF t.key_destroy_func # NoFunc /\ ~reusing_key
         THEN <<IF keep_new_key THEN t.keys[node_index + 1] ELSE new_key>>
         ELSE <<>>,
         IF t.value_destroy_func # NoFunc
         THEN <<t.values[node_index + 1]>> ELSE <<>>,
         FALSE, 0)
  ELSE HashResult(
         insert_counted(
           insert_written(t, node_index, key_hash, new_key, new_value, keep_new_key),
           t.hashes[node_index + 1]),
         <<>>, <<>>, FALSE, 1)

exechelp_hash_table_insert_internal(t, key, value, keep_new_key) ==
  IF t.null THEN HashResult(t, <<>>, <<>>, FALSE, 0)
  ELSE exechelp_hash_table_insert_node(
         t, exechelp_hash_table_lookup_node(t, key), hash_return(key), key, value,
         keep_new_key, FALSE)

exechelp_hash_table_insert(t, key, value) ==
  exechelp_hash_table_insert_internal(t, key, value, FALSE)

exechelp_hash_table_replace(t, key, value) ==
  exechelp_hash_table_insert_internal(t, key, value, TRUE)

exechelp_hash_table_size(t) == IF t.null THEN 0 ELSE t.nnodes

exechelp_hash_table_lookup(t, key) ==
  IF t.null THEN 0
  ELSE IF HASH_IS_REAL(t.hashes[exechelp_hash_table_lookup_node(t, key) + 1])
  THEN t.values[exechelp_hash_table_lookup_node(t, key) + 1]
  ELSE 0

exechelp_hash_table_contains(t, key) ==
  IF t.null THEN FALSE
  ELSE HASH_IS_REAL(t.hashes[exechelp_hash_table_lookup_node(t, key) + 1])

\* exechelp_hash_table_remove_internal once the node is found
remove_found(r) ==
  HashResult(exechelp_hash_table_maybe_resize(r.t), r.keys_destroyed,
             r.values_destroyed, FALSE, 1)

exechelp_hash_table_remove_internal(t, key, notify) ==
  IF t.null THEN HashResult(t, <<>>, <<>>, FALSE, 0)
  ELSE IF ~HASH_IS_REAL(t.hashes[exechelp_hash_table_lookup_node(t, key) + 1])
  THEN HashResult(t, <<>>, <<>>, FALSE, 0)
  ELSE remove_found(
         exechelp_hash_table_remove_node(
           t, exechelp_hash_table_lookup_node(t, key), notify))

exechelp_hash_table_remove(t, key) ==
  exechelp_hash_table_remove_internal(t, key, TRUE)

\* exechelp_hash_table_remove_all after exechelp_hash_table_remove_all_nodes
remove_all_resized(r) ==
  IF r.fault THEN r
  ELSE HashResult(exechelp_hash_table_maybe_resize(r.t), r.keys_destroyed,
                  r.values_destroyed, FALSE, 0)

exechelp_hash_table_remove_all(t, ub) ==
  IF t.null THEN HashResult(t, <<>>, <<>>, FALSE, 0)
  ELSE remove_all_resized(exechelp_hash_table_remove_all_nodes(t, TRUE, FALSE, ub))

\* exechelp_hash_table_unref after exechelp_hash_table_remove_all_nodes: the
\* arrays and the struct are freed
unref_freed(r) ==
  IF r.fault THEN r
  ELSE HashResult([r.t EXCEPT !.freed = TRUE], r.keys_destroyed,
                  r.values_destroyed, FALSE, 0)

exechelp_hash_table_unref(t, ub) ==
  IF t.null THEN HashResult(t, <<>>, <<>>, FALSE, 0)
  ELSE IF t.ref_count - 1 # 0
  THEN HashResult([t EXCEPT !.ref_count = @ - 1], <<>>, <<>>, FALSE, 0)
  ELSE unref_freed(
         exechelp_hash_table_remove_all_nodes(
           [t EXCEPT !.ref_count = @ - 1], TRUE, TRUE, ub))

\* exechelp_hash_table_destroy after exechelp_hash_table_remove_all
destroy_unref(r, ub) ==
  IF r.fault THEN r ELSE HashThen(r, exechelp_hash_table_unref(r.t, ub))

exechelp_hash_table_destroy(t, ub) ==
  IF t.null THEN HashResult(t, <<>>, <<>>, FALSE, 0)
  ELSE destroy_unref(exechelp_hash_table_remove_all(t, ub), ub)

(***************************************************************************)
(* The association registry (common.c).  Binary names are whole strings    *)
(* here: the registry only compares them with strcmp and str_equal.        *)
(***************************************************************************)
\* a NULL name
NoName == "<null>"

\* static ExecHelpBinaryAssociations *assoc = NULL
NoRegistry == [null |-> TRUE, assoc |-> <<>>, index |-> <<>>]

\* one pair of statements of the initialisation: the name prepended to the
\* list of the group, and the key and the value inserted in the index
Row(listed, key, value) == [listed |-> listed, key |-> key, value |-> value]

FirefoxRows ==
  << Row("/usr/lib/firefox/firefox", "/usr/lib/firefox/firefox", "/usr/bin/firefox"),
     Row("/usr/lib/firefox/plugin-container", "/usr/lib/firefox/plugin-container",
         "/usr/bin/firefox"),
     Row("/usr/lib/firefox/webapprt-stub", "/usr/lib/firefox/webapprt-stub",
         "/usr/bin/firefox"),
     Row("/usr/bin/firefox", "/usr/bin/firefox", "/usr/bin/firefox") >>

VlcRows ==
  << Row("/usr/bin/cvlc", "/usr/bin/cvlc", "/usr/bin/vlc"),
     Row("/usr/bin/vlc-wrapper", "/usr/bin/vlc-wrapper", "/usr/bin/vlc"),
     Row("/usr/lib/vlc/vlc-cache-gen", "/usr/bin/vlc-cache-gen", "/usr/bin/vlc"),
     Row("/usr/bin/vlc", "/usr/bin/vlc", "/usr/bin/vlc") >>

ThunarRows ==
  << Row("/usr/bin/thunar-settings", "/usr/bin/thunar-settings", "/usr/bin/thunar"),
     Row("/usr/bin/thunar-volman", "/usr/bin/volman", "/usr/bin/thunar"),
     Row("/usr/bin/thunar-volman-settings", "/usr/bin/thunar-volman-settings",
         "/usr/bin/thunar"),
     Row("/usr/bin/thunar", "/usr/bin/thunar", "/usr/bin/thunar") >>

\* exechelp_slist_prepend(list, data)
exechelp_slist_prepend(list, data) == <<data>> \o list

\* the statements of one group from its i-th pair on
RECURSIVE build_group(_, _, _, _)
build_group(rows, i, list, index) ==
  IF i > Len(rows) THEN [list |-> list, index |-> index]
  ELSE build_group(rows, i + 1,
                   exechelp_slist_prepend(list, rows[i].listed),
                   TableSet(index, rows[i].key, rows[i].value))

\* assoc->assoc = exechelp_slist_prepend(assoc->assoc, group)
group_prepended(reg, g) ==
  [null |-> FALSE, assoc |-> exechelp_slist_prepend(reg.assoc, g.list),
   index |-> g.index]

add_group(reg, rows) ==
  group_prepended(reg, build_group(rows, 1, <<>>, reg.index))

\* exechelp_get_binary_associations(): the static assoc after the call
exechelp_get_binary_associations(assoc) ==
  IF ~assoc.null THEN assoc
  ELSE add_group(add_group(add_group(NoRegistry, FirefoxRows), VlcRows),
                 ThunarRows)

\* the while loop of exechelp_get_associations_for_main_binary from the i-th
\* group on; <<>> is the NULL list
RECURSIVE assocs_loop(_, _, _)
assocs_loop(assocs, i, mainkey) ==
  IF i > Len(assocs) THEN <<>>
  ELSE IF assocs[i] # <<>> /\ assocs[i][1] = mainkey THEN assocs[i]
  ELSE assocs_loop(assocs, i + 1, mainkey)

exechelp_get_associations_for_main_binary(assoc, mainkey) ==
  IF assoc.null \/ mainkey = NoName THEN <<>>
  ELSE assocs_loop(assoc.assoc, 1, mainkey)

\* exechelp_slist_find_custom(list, data, strcmp) != NULL
exechelp_slist_find_custom(list, data) ==
  \E i \in 1..Len(list) : list[i] = data

\* exechelp_is_associated_helper(caller, callee), given the registry that
\* exechelp_get_binary_associations returns
associated_in(assoc, caller, callee) ==
  IF caller \notin DOMAIN assoc.index THEN 0
  ELSE IF assoc.index[caller] = NoName THEN 0
  ELSE IF exechelp_slist_find_custom(
            exechelp_get_associations_for_main_binary(assoc, assoc.index[caller]),
            callee)
       THEN 1 ELSE 0

exechelp_is_associated_helper(assoc, caller, callee) ==
  IF caller = NoName \/ callee = NoName THEN 0
  ELSE associated_in(exechelp_get_binary_associations(assoc), caller, callee)

(***************************************************************************)
(* State.                                                                  *)
(***************************************************************************)
VARIABLES
  world,       \* what the system calls answer: file system, cwd, HOME, PATH,
               \* the three policy files, the open descriptors
  tb,          \* the static tables cache and mtime of exechelp_read_list_from_file
  proc,        \* the intercepted call in progress: its arguments, the outputs
               \* of the filter, the exec calls made so far, its result
  q_managed,   \* list specification: the list buffer handed to the membership test
  q_real,      \* list specification: the candidate path
  q_ret,       \* list specification: the returned int, or -1 before the call
  c_get,       \* cache specification: the last call of
               \* exechelp_read_list_from_file, what it found and returned
  c_loaded,    \* cache specification: for every path, the contents and the
               \* mtime the file had when it was last read
  a_reg,       \* association specification: the static assoc of
               \* exechelp_get_binary_associations
  a_call,      \* association specification: the last call of
               \* exechelp_is_associated_helper and what it returned
  h_tab,       \* hash table specification: the table of the client
  h_op,        \* hash table specification: the last operation, the table it
               \* was called on and the destroy functions it ran
  k_call,      \* canonicalizer specification: the file system, the arguments
               \* and the result of _exechelp_canonicalize_filename_mode
  sh,          \* thread specification: the memory the threads share: the
               \* statics assoc, cache and mtime, the registries, the tables,
               \* the list buffers, and the mtime of the policy file
  th,          \* thread specification: for every thread its position and
               \* its local variables
  l_read,      \* read-link specification: the arguments, the position, the
               \* buffer sizes so far and the result of
               \* exechelp_coreutils_areadlink_with_size
  s_call,      \* search-path specification: the environment, the argument
               \* and the result of exechelp_resolve_path
  m_tab,       \* map specification: the table of the client
  m_op,        \* map specification: the last operation, its arguments and
               \* what it returned
  m_ref        \* map specification: the reference map, the value bound to
               \* every key by the calls so far, 0 for none

call_vars  == <<world, tb, proc>>
list_vars  == <<q_managed, q_real, q_ret>>
cache_vars == <<c_get, c_loaded>>
assoc_vars == <<a_reg, a_call>>

\* the variables of the specifications of single components
hash_vars  == <<h_tab, h_op>>
canon_vars == <<k_call>>
thread_vars == <<sh, th>>
map_vars == <<m_tab, m_op, m_ref>>
unit_vars == <<l_read, s_call, map_vars>>
part_vars == <<assoc_vars, hash_vars, canon_vars, thread_vars, unit_vars>>

vars == <<call_vars, list_vars, cache_vars, part_vars>>

\* the variables outside each specification, and their values there
not_call_vars  == <<list_vars, cache_vars, part_vars>>
not_list_vars  == <<call_vars, cache_vars, part_vars>>
not_cache_vars == <<proc, list_vars, part_vars>>
not_assoc_vars ==
  <<call_vars, list_vars, cache_vars, hash_vars, canon_vars, thread_vars, unit_vars>>
not_hash_vars ==
  <<call_vars, list_vars, cache_vars, assoc_vars, canon_vars, thread_vars, unit_vars>>
not_canon_vars ==
  <<call_vars, list_vars, cache_vars, assoc_vars, hash_vars, thread_vars, unit_vars>>
not_thread_vars ==
  <<call_vars, list_vars, cache_vars, assoc_vars, hash_vars, canon_vars, unit_vars>>
not_read_vars ==
  <<call_vars, list_vars, cache_vars, assoc_vars, hash_vars, canon_vars, thread_vars,
    s_call, map_vars>>
not_resolve_vars ==
  <<call_vars, list_vars, cache_vars, assoc_vars, hash_vars, canon_vars, thread_vars,
    l_read, map_vars>>
not_map_vars ==
  <<call_vars, list_vars, cache_vars, assoc_vars, hash_vars, canon_vars, thread_vars,
    l_read, s_call>>

(***************************************************************************)
(* The environments and inputs enumerated.  One-letter names stand for the *)
(* files of the scenarios: /b is /usr/bin, /b/v is /usr/bin/vlc, /b/f is   *)
(* /usr/bin/firefox, /s is /secret, /s/m is /secret/song.mp3, /t is /tmp.  *)
(***************************************************************************)
P_b  == <<"/", "b">>
P_bv == <<"/", "b", "/", "v">>
P_bf == <<"/", "b", "/", "f">>
P_s  == <<"/", "s">>
P_sm == <<"/", "s", "/", "m">>
P_t  == <<"/", "t">>
P_tl == <<"/", "t", "/", "l">>
P_tn == <<"/", "t", "/", "n">>
P_p  == <<"/", "p">>

TheFS ==
  (ROOT :> Dir(1)) @@ (P_b :> Dir(2)) @@ (P_bv :> Reg(3, TRUE))
  @@ (P_bf :> Reg(4, TRUE)) @@ (P_s :> Dir(5)) @@ (P_sm :> Reg(6, FALSE))
  @@ (P_t :> Dir(7)) @@ (P_tl :> Lnk(8, P_sm)) @@ (P_tn :> Reg(9, FALSE))
  @@ (P_p :> NoSearch(10))

Unreadable == PolicyFile(FALSE, 0, FALSE, <<>>)
Readable(contents) == PolicyFile(TRUE, 1, TRUE, contents)

HelperFiles       == {Unreadable, Readable(P_bf \o <<"\n">>)}
ManagedBinsFiles  == {Unreadable, Readable(P_bv \o <<"\n">>)}
ManagedFilesFiles ==
  {Unreadable, Readable(<<>>), Readable(P_s \o <<"\n">>),
   Readable(P_p \o <<"\n">> \o P_s \o <<"\n">>)}

\* descriptor 3 is open on /usr/bin/vlc; the link of descriptor 4 cannot be read
TheFds == (3 :> P_bv) @@ (4 :> NULL)

Worlds ==
  {[fs |-> TheFS, cwd |-> cwd, HOME |-> P_s, PATH |-> P_t \o <<":">> \o P_b,
    fds |-> TheFds,
    pol |-> (EXECHELP_HELPER_BINS_PATH :> h) @@ (EXECHELP_MANAGED_BINS_PATH :> mb)
            @@ (EXECHELP_MANAGED_FILES_PATH :> mf)] :
     cwd \in {P_t, P_s}, h \in HelperFiles, mb \in ManagedBinsFiles,
     mf \in ManagedFilesFiles}

\* the strings a caller passes after argv[0]
ArgPool == {<<"x">>, P_sm, P_tl, <<"~", "/", "m">>, <<"~", "x">>}

\* argument vectors of argv[0] and at most n further strings
RECURSIVE ArgvsUpTo(_)
ArgvsUpTo(n) ==
  IF n = 0 THEN {<< <<"v">> >>}
  ELSE ArgvsUpTo(n - 1)
       \cup {Append(a, x) : a \in {b \in ArgvsUpTo(n - 1) : Len(b) = n}, x \in ArgPool}

Argvs == ArgvsUpTo(MaxArgs) \cup {NULL_ARRAY}
Envps == {<< <<"A", "=", "1">> >>}
ExecvePaths  == {P_bv, P_bf, P_b, NULL}
ExecvpeFiles == {<<"v">>, <<"f">>, <<"q">>}
FexecveFds   == {-1, 3, 4}

\* errno of a sentinel exec, which returns: the sentinel file does not exist
SentinelErrnos == {"ENOENT", "EACCES"}
\* errno of an allowed exec that returns
ExecErrnos == {"EACCES", "ENOEXEC"}

NoTables == [cache |-> <<>>, mtime |-> <<>>]

\* the process between two intercepted calls
Idle ==
  [pc |-> "idle", entry |-> "none", file |-> NULL, fd |-> -1, path |-> NULL,
   argv |-> NULL_ARRAY, envp |-> NULL_ARRAY,
   allowed_exec |-> NULL, allowed_argv |-> NULL_ARRAY, allowed_alloc |-> 0,
   forbidden_exec |-> NULL, forbidden_argv |-> NULL_ARRAY, forbidden_alloc |-> 0,
   decisions |-> NULL_ARRAY, is_file |-> <<>>, reals |-> <<>>,
   filtered |-> FALSE,
   plan |-> <<>>, next |-> 1, trace |-> <<>>, ret_value |-> 0, errno |-> "OK"]

\* no call of exechelp_read_list_from_file was made yet
NoGet ==
  [path |-> "none", file |-> Unreadable, before_list |-> NULL, before_mtime |-> 0,
   list |-> NULL, opened |-> FALSE, tables_same |-> TRUE]

\* the threads of the thread specification
Threads == {1, 2}

\* the shared memory of a process that made no call yet: the statics are
\* NULL (0); the policy file exists with mtime 1
NoShared ==
  [assoc |-> 0, regs |-> <<>>, cache |-> 0, mtime |-> 0, tables |-> <<>>,
   heap |-> <<>>, st_mtime |-> 1, crashed |-> FALSE]

\* a thread before its first intercepted call
ThreadStart ==
  [pc |-> "assoc_check", my_reg |-> 0, used_reg |-> 0,
   reg_built |-> TRUE, last_access |-> 0, cached_access |-> 0, new_list |-> 0,
   list |-> 0, read_freed |-> "no"]

\* no call of the canonicalizer specification
NoCanonCall ==
  [a_to |-> <<>>, c_to |-> <<>>, home |-> NULL, name |-> NULL,
   can_mode |-> CAN_EXISTING, called |-> FALSE, ret |-> CanonFail("none"),
   again_called |-> FALSE, again |-> CanonFail("none"),
   real_called |-> FALSE, can_fname |-> CanonFail("none"), real |-> NULL]

\* no call of the search-path specification
NoResolveCall ==
  [extra |-> {}, cwd |-> ROOT, PATH |-> NULL, file |-> NULL, called |-> FALSE,
   ret |-> NULL]

\* no call of the read-link specification
NoReadCall ==
  [size |-> 0, link_length |-> 0, pc |-> "none", buf_size |-> 0, sizes |-> <<>>,
   ret |-> [ok |-> FALSE, length |-> 0, errno |-> "none"]]

\* no operation of the hash table was made yet
NoOp ==
  [name |-> "none", before |-> NoTable, keys_destroyed |-> <<>>,
   values_destroyed |-> <<>>, fault |-> FALSE]

\* no operation of the map client was made yet
NoMapOp == [name |-> "none", ret |-> 0, fault |-> FALSE]

\* no call of exechelp_is_associated_helper was made yet
NoQuery == [caller |-> NoName, callee |-> NoName, associated |-> -1]

\* the values of the variables outside their own specification
NoCalls == world = (CHOOSE w \in Worlds : TRUE) /\ tb = NoTables /\ proc = Idle
NoList  == q_managed = <<>> /\ q_real = NULL /\ q_ret = 0
NoCache == c_get = NoGet /\ c_loaded = <<>>
NoAssoc == a_reg = NoRegistry /\ a_call = NoQuery
NoHash  == h_tab = NoTable /\ h_op = NoOp
NoCanon == k_call = NoCanonCall
NoThreads == sh = NoShared /\ th = [t \in Threads |-> ThreadStart]
NoRead == l_read = NoReadCall
NoResolve == s_call = NoResolveCall
NoMap == m_tab = NoTable /\ m_op = NoMapOp /\ m_ref = <<>>
NoUnits == NoRead /\ NoResolve /\ NoMap
NoParts == NoAssoc /\ NoHash /\ NoCanon /\ NoThreads /\ NoUnits

OutsideCalls == NoList /\ NoCache /\ NoParts
OutsideList  == NoCalls /\ NoCache /\ NoParts
OutsideCache == proc = Idle /\ NoList /\ NoParts
OutsideAssoc == NoCalls /\ NoList /\ NoCache /\ NoHash /\ NoCanon /\ NoThreads /\ NoUnits
OutsideHash  == NoCalls /\ NoList /\ NoCache /\ NoAssoc /\ NoCanon /\ NoThreads /\ NoUnits
OutsideCanon == NoCalls /\ NoList /\ NoCache /\ NoAssoc /\ NoHash /\ NoThreads /\ NoUnits
OutsideThreads ==
  NoCalls /\ NoList /\ NoCache /\ NoAssoc /\ NoHash /\ NoCanon /\ NoUnits
NoWholes == NoCalls /\ NoList /\ NoCache /\ NoAssoc /\ NoHash /\ NoCanon /\ NoThreads
OutsideRead == NoWholes /\ NoResolve /\ NoMap
OutsideResolve == NoWholes /\ NoRead /\ NoMap
OutsideMap == NoWholes /\ NoRead /\ NoResolve

Init ==
  /\ world \in Worlds
  /\ tb = NoTables
  /\ proc = Idle
  /\ OutsideCalls

(***************************************************************************)
(* The three intercepted entry points (lib.c).  An entry point runs up to  *)
(* its first exec call in one step; each exec call is a step of its own,   *)
(* because it either replaces the process image or returns with an errno.  *)
(***************************************************************************)
\* the entry point after exechelp_filter_forbidden_exec returned r
Filtered(entry, file, fd, path, argv, envp, r) ==
  LET c == [Idle EXCEPT
              !.pc = IF r.fault THEN "crashed" ELSE "dispatch",
              !.entry = entry, !.file = file, !.fd = fd, !.path = path,
              !.argv = argv, !.envp = envp,
              !.allowed_exec = r.allowed_exec, !.allowed_argv = r.allowed_argv,
              !.allowed_alloc = r.allowed_alloc,
              !.forbidden_exec = r.forbidden_exec,
              !.forbidden_argv = r.forbidden_argv,
              !.forbidden_alloc = r.forbidden_alloc,
              !.decisions = r.decisions, !.is_file = r.is_file,
              !.reals = r.reals, !.filtered = TRUE]
  IN  [c EXCEPT !.plan = IF r.fault THEN <<>> ELSE dispatch(c)]

\* an early return that leaves errno as it was
EarlyReturn_no_errno(entry, file, fd, argv, envp, errno) ==
  [Idle EXCEPT !.pc = "returned", !.entry = entry, !.file = file, !.fd = fd,
               !.argv = argv, !.envp = envp, !.ret_value = -1]

\* an early return of 0
EarlyReturn_ok(entry, file, fd, argv, envp, errno) ==
  [Idle EXCEPT !.pc = "returned", !.entry = entry, !.file = file, !.fd = fd,
               !.argv = argv, !.envp = envp, !.ret_value = 0, !.errno = errno]

\* an entry point that returns before the filter
EarlyReturn(entry, file, fd, argv, envp, errno) ==
  [Idle EXCEPT !.pc = "returned", !.entry = entry, !.file = file, !.fd = fd,
               !.argv = argv, !.envp = envp, !.ret_value = -1, !.errno = errno]

CanCall == proc.pc = "idle"

\* execve(path, argv, envp) up to its first exec call
Call_execve ==
  /\ CanCall
  /\ \E path \in ExecvePaths, argv \in Argvs, envp \in Envps :
       \E r \in {exechelp_filter_forbidden_exec(world, tb, path, argv)} :
         /\ proc' = Filtered("execve", NULL, -1, path, argv, envp, r)
         /\ tb' = r.tb
  /\ UNCHANGED <<world, not_call_vars>>

\* execvpe(file, argv, envp) up to its first exec call
Call_execvpe ==
  /\ CanCall
  /\ \E file \in ExecvpeFiles, argv \in Argvs, envp \in Envps :
       \E path \in {exechelp_resolve_path(world, file)} :
         IF path = NULL
         THEN /\ proc' = EarlyReturn("execvpe", file, -1, argv, envp, "ENOENT")
              /\ tb' = tb
         ELSE \E r \in {exechelp_filter_forbidden_exec(world, tb, path, argv)} :
                /\ proc' = Filtered("execvpe", file, -1, path, argv, envp, r)
                /\ tb' = r.tb
  /\ UNCHANGED <<world, not_call_vars>>

\* fexecve(fd, argv, envp) up to its first exec call
Call_fexecve ==
  /\ CanCall
  /\ \E fd \in FexecveFds, argv \in Argvs, envp \in Envps :
       IF fd < 0
       THEN /\ proc' = EarlyReturn("fexecve", NULL, fd, argv, envp, "EINVAL")
            /\ tb' = tb
       ELSE \E path \in {exechelp_coreutils_areadlink_with_size(world.fds[fd], 2048).buf} :
              IF path = NULL
              THEN /\ proc' = EarlyReturn("fexecve", NULL, fd, argv, envp, "EINVAL")
                   /\ tb' = tb
              ELSE \E r \in {exechelp_filter_forbidden_exec(world, tb, path, argv)} :
                     /\ proc' = Filtered("fexecve", NULL, fd, path, argv, envp, r)
                     /\ tb' = r.tb
  /\ UNCHANGED <<world, not_call_vars>>

AtExec(kind) ==
  /\ proc.pc = "dispatch"
  /\ proc.next <= Len(proc.plan)
  /\ proc.plan[proc.next].kind = kind

\* the exec of the sentinel path: it returns -1 with some errno
NotifyExec ==
  /\ AtExec("sentinel")
  /\ \E e \in SentinelErrnos :
       proc' = [proc EXCEPT !.trace = Append(@, proc.plan[proc.next]),
                            !.next = @ + 1, !.errno = e]
  /\ UNCHANGED <<world, tb, not_call_vars>>

\* the exec of the allowed half: it replaces the process image, or returns
\* -1 with some errno
AllowedExec ==
  /\ AtExec("allowed")
  /\ \/ /\ exec_target_runs(world, proc.plan[proc.next])
        /\ proc' = [proc EXCEPT !.trace = Append(@, proc.plan[proc.next]),
                                !.pc = "replaced"]
     \/ \E e \in ExecErrnos :
          proc' = [proc EXCEPT !.trace = Append(@, proc.plan[proc.next]),
                               !.next = @ + 1, !.errno = e, !.ret_value = -1]
  /\ UNCHANGED <<world, tb, not_call_vars>>

\* the end of an entry point that sets EACCES whatever the halves are
Return_refuses ==
  /\ proc.pc = "dispatch"
  /\ proc.next > Len(proc.plan)
  /\ proc' = [proc EXCEPT !.pc = "returned",
                          !.ret_value = refuse(proc.errno).ret_value,
                          !.errno = refuse(proc.errno).errno]
  /\ UNCHANGED <<world, tb, not_call_vars>>

\* the end of the entry point: the else branch of "if (allowed_exec)", the
\* frees, the return
Return ==
  /\ proc.pc = "dispatch"
  /\ proc.next > Len(proc.plan)
  /\ proc' = IF proc.allowed_exec # NULL
             THEN [proc EXCEPT !.pc = "returned"]
             ELSE [proc EXCEPT !.pc = "returned",
                               !.ret_value = refuse(proc.errno).ret_value,
                               !.errno = refuse(proc.errno).errno]
  /\ UNCHANGED <<world, tb, not_call_vars>>

\* the caller goes on after the entry point returned; the static tables stay
Continue ==
  /\ proc.pc = "returned"
  /\ proc' = Idle
  /\ UNCHANGED <<world, tb, not_call_vars>>

Next ==
  \/ Continue
  \/ Call_execve
  \/ Call_execvpe
  \/ Call_fexecve
  \/ NotifyExec
  \/ AllowedExec
  \/ Return

Spec == Init /\ [][Next]_vars

(***************************************************************************)
(* The list specification: exechelp_file_list_contains_path applied to     *)
(* every list and every absolute candidate within the bounds.              *)
(***************************************************************************)
ListAlphabet == {SLASH, "a", "b", EXECHELP_FILE_SEPARATOR_CHR}
PathAlphabet == {SLASH, "a", "b"}

QLists == StringsUpTo(ListAlphabet, MaxListLen)
QCandidates ==
  {NULL} \cup {<<SLASH>> \o s : s \in StringsUpTo(PathAlphabet, MaxPathLen - 1)}

InitList ==
  /\ q_managed \in QLists
  /\ q_real \in QCandidates
  /\ q_ret = -1
  /\ OutsideList

ContainsPath ==
  /\ q_ret = -1
  /\ q_ret' = exechelp_file_list_contains_path(q_managed, q_real)
  /\ UNCHANGED <<q_managed, q_real, not_list_vars>>

NextList == ContainsPath

SpecList == InitList /\ [][NextList]_vars

(***************************************************************************)
(* The cache specification: calls of exechelp_read_list_from_file on two   *)
(* policy files that are written, touched, removed and made unreadable     *)
(* between the calls.                                                      *)
(***************************************************************************)
CachePaths == {EXECHELP_HELPER_BINS_PATH, EXECHELP_MANAGED_FILES_PATH}
CacheContents == {<<>>, P_s \o <<"\n">>}

InitCache ==
  /\ world = [CHOOSE w \in Worlds : TRUE EXCEPT
                !.pol = [p \in PolicyPaths |-> PolicyFile(TRUE, 0, TRUE, <<>>)]]
  /\ tb = NoTables
  /\ c_get = NoGet
  /\ c_loaded = <<>>
  /\ OutsideCache

\* the file is written: new contents, and a modification time that stays in
\* the same second or moves on
WriteFile ==
  /\ \E p \in CachePaths, c \in CacheContents :
       \E m \in world.pol[p].st_mtime..MaxMtime :
         world' = [world EXCEPT !.pol[p].contents = c, !.pol[p].st_mtime = m]
  /\ c_get' = NoGet
  /\ UNCHANGED <<tb, c_loaded, not_cache_vars>>

\* the file or its directory changes so that stat or fopen fail or succeed
SetAccess ==
  /\ \E p \in CachePaths, s \in BOOLEAN, o \in BOOLEAN :
       world' = [world EXCEPT !.pol[p].stat_ok = s, !.pol[p].open_ok = o]
  /\ c_get' = NoGet
  /\ UNCHANGED <<tb, c_loaded, not_cache_vars>>

\* one call exechelp_read_list_from_file(p)
GetList ==
  /\ \E p \in CachePaths :
       \E r \in {exechelp_read_list_from_file(world, tb, p)} :
         /\ tb' = r.tb
         /\ c_get' = [path |-> p, file |-> world.pol[p],
                      before_list |-> cached_list(tb, p),
                      before_mtime |-> cached_access_of(tb, p),
                      list |-> r.list, opened |-> r.opened,
                      tables_same |-> (r.tb = tb)]
         /\ c_loaded' = IF r.opened /\ world.pol[p].open_ok
                        THEN TableSet(c_loaded, p,
                                      [contents |-> world.pol[p].contents,
                                       st_mtime |-> world.pol[p].st_mtime])
                        ELSE c_loaded
  /\ UNCHANGED <<world, not_cache_vars>>

NextCache ==
  \/ WriteFile
  \/ SetAccess
  \/ GetList

SpecCache == InitCache /\ [][NextCache]_vars

(***************************************************************************)
(* The association registry on its own: calls of                           *)
(* exechelp_is_associated_helper with names of the registry and others.    *)
(***************************************************************************)
\* the registry that the first call builds
BuiltRegistry == exechelp_get_binary_associations(NoRegistry)

\* the names of the member lists
ListedNames ==
  UNION {{BuiltRegistry.assoc[i][j] : j \in 1..Len(BuiltRegistry.assoc[i])} :
           i \in 1..Len(BuiltRegistry.assoc)}

\* the names a call is made with
AssocNames == ListedNames \cup DOMAIN BuiltRegistry.index \cup {"/bin/ls", NoName}

InitAssoc ==
  /\ a_reg = NoRegistry
  /\ a_call = NoQuery
  /\ OutsideAssoc

IsAssociatedHelper ==
  \E caller \in AssocNames, callee \in AssocNames :
    /\ a_reg' = IF caller = NoName \/ callee = NoName THEN a_reg
                ELSE exechelp_get_binary_associations(a_reg)
    /\ a_call' = [caller |-> caller, callee |-> callee,
                  associated |-> exechelp_is_associated_helper(a_reg, caller, callee)]
    /\ UNCHANGED not_assoc_vars

NextAssoc == IsAssociatedHelper

SpecAssoc == InitAssoc /\ [][NextAssoc]_vars

(***************************************************************************)
(* The hash table on its own: a client that creates a table with           *)
(* exechelp_str_hash and exechelp_str_equal and any destroy functions,     *)
(* then inserts, removes, empties and destroys.  The keys collide: two     *)
(* have the same hash, a third the same first slot.  A call of a NULL      *)
(* function ends the process or was removed by the compiler.               *)
(***************************************************************************)
HashKeys == {<<"a", "b">>, <<"b", "A">>, <<"A", "a">>, <<"b">>}
HashValues == {1, 2}
DestroyFuncs == {NoFunc, "free"}
NullCallOutcomes == {"segv", "elided"}

InitHash ==
  /\ h_tab = NoTable
  /\ h_op = NoOp
  /\ OutsideHash

\* the client runs on: the process is alive and the table was not freed
HashLive == ~h_op.fault /\ ~h_tab.freed

\* the operation called name on h_tab returned r
HashReturned(name, r) ==
  /\ h_tab' = r.t
  /\ h_op' = [name |-> name, before |-> h_tab,
              keys_destroyed |-> r.keys_destroyed,
              values_destroyed |-> r.values_destroyed, fault |-> r.fault]
  /\ UNCHANGED not_hash_vars

HashNewFull ==
  /\ ~h_op.fault
  /\ h_tab.null \/ h_tab.freed
  /\ \E kd \in DestroyFuncs, vd \in DestroyFuncs :
       HashReturned("new_full",
                    HashResult(exechelp_hash_table_new_full(kd, vd),
                               <<>>, <<>>, FALSE, 0))

HashInsert ==
  /\ HashLive
  /\ \E key \in HashKeys, value \in HashValues :
       HashReturned("insert", exechelp_hash_table_insert(h_tab, key, value))

HashRemove ==
  /\ HashLive
  /\ \E key \in HashKeys :
       HashReturned("remove", exechelp_hash_table_remove(h_tab, key))

HashRemoveAll ==
  /\ HashLive
  /\ \E ub \in NullCallOutcomes :
       HashReturned("remove_all", exechelp_hash_table_remove_all(h_tab, ub))

HashDestroy ==
  /\ HashLive
  /\ \E ub \in NullCallOutcomes :
       HashReturned("destroy", exechelp_hash_table_destroy(h_tab, ub))

NextHash ==
  \/ HashNewFull
  \/ HashInsert
  \/ HashRemove
  \/ HashRemoveAll
  \/ HashDestroy

SpecHash == InitHash /\ [][NextHash]_vars

(***************************************************************************)
(* The canonicalizer on its own: the working directory is /t, where a and  *)
(* c are symbolic links with any of the targets below, among them a -> a   *)
(* and a -> c, c -> a.                                                      *)
(***************************************************************************)
P_ta == <<"/", "t", "/", "a">>
P_tc == <<"/", "t", "/", "c">>

LinkTargets ==
  {<<"a">>, <<"c">>, P_ta, <<"n">>, <<"q">>, <<".", "/", "a">>, <<"a", "/", "x">>}

CanonNames ==
  {<<"a">>, <<"c">>, P_ta, <<"a", "/", "n">>, <<"l">>, <<"n">>,
   <<"~", "/", "m">>, <<"l", "/", ".", ".", "/", "m">>,
   <<"~", "/", "t", "/", ".", "/", ".", ".", "/", "t">>,
   <<"~", "/", ".", ".", "/", ".", ".", "/", "t">>}

\* the values of the environment variable HOME: /s, /s/. and s, the root,
\* and NULL for a HOME that is not set
CanonHomes == {P_s, <<"/", "s", "/", ".">>, <<"s">>, ROOT, NULL}

CanonModes ==
  {CAN_EXISTING, CAN_ALL_BUT_LAST, CAN_MISSING,
   CAN_EXISTING + CAN_NOLINKS, CAN_MISSING + CAN_NOLINKS}

\* the world where /t/a points to a_to and /t/c to c_to, and HOME is home
CanonWorld(a_to, c_to, home) ==
  [fs |-> (P_ta :> Lnk(11, a_to)) @@ (P_tc :> Lnk(12, c_to)) @@ TheFS,
   cwd |-> P_t, HOME |-> home, PATH |-> P_b, fds |-> TheFds,
   pol |-> [f \in PolicyPaths |-> Unreadable]]

\* the world of a call
WorldOf(call) == CanonWorld(call.a_to, call.c_to, call.home)

InitCanon ==
  /\ k_call \in [a_to : LinkTargets, c_to : LinkTargets, home : CanonHomes,
                 name : CanonNames, can_mode : CanonModes, called : {FALSE},
                 ret : {CanonFail("none")}, again_called : {FALSE},
                 again : {CanonFail("none")}, real_called : {FALSE},
                 can_fname : {CanonFail("none")}, real : {NULL}]
  /\ OutsideCanon

\* a call of _exechelp_canonicalize_filename_mode
Canonicalize ==
  /\ ~k_call.called
  /\ k_call' = [k_call EXCEPT
                  !.called = TRUE,
                  !.ret = canonicalize_filename_mode(WorldOf(k_call), k_call.name,
                                                     k_call.can_mode)]
  /\ UNCHANGED not_canon_vars

\* a second call in the same mode, on the name that the first one returned
CanonicalizeAgain ==
  /\ k_call.called
  /\ k_call.ret.ok
  /\ ~k_call.again_called
  /\ k_call' = [k_call EXCEPT
                  !.again_called = TRUE,
                  !.again = canonicalize_filename_mode(WorldOf(k_call),
                                                       k_call.ret.val,
                                                       k_call.can_mode)]
  /\ UNCHANGED not_canon_vars

\* a call of exechelp_coreutils_realpath on the name; can_fname is the result
\* of its first call of the canonicalizer
Realpath ==
  /\ ~k_call.real_called
  /\ k_call' = [k_call EXCEPT
                  !.real_called = TRUE,
                  !.can_fname = realpath_can_fname(WorldOf(k_call), k_call.name),
                  !.real = exechelp_coreutils_realpath(WorldOf(k_call),
                                                       k_call.name)]
  /\ UNCHANGED not_canon_vars

NextCanon == Canonicalize \/ CanonicalizeAgain \/ Realpath

SpecCanon == InitCanon /\ [][NextCanon]_vars

(***************************************************************************)
(* exechelp_coreutils_areadlink_with_size on its own, one step for every   *)
(* iteration of its loop.  The link is given by the length of its value,   *)
(* -1 for a file that readlink refuses.                                    *)
(***************************************************************************)
\* the size hints: st_size of the link as the caller read it
SizeHints == {0, 1, 7, 600, 1023, 1024, 1025, 4096, 5000}

\* the lengths of the link value
LinkLengths == {-1, 0, 1, 8, 1024, 1025, 2049, 2050, 4095, 4096, 5000}

InitRead ==
  /\ l_read \in [size : SizeHints, link_length : LinkLengths, pc : {"start"},
                 buf_size : {0}, sizes : {<<>>},
                 ret : {[ok |-> FALSE, length |-> 0, errno |-> "none"]}]
  /\ OutsideRead

\* the declarations: buf_size gets its initial value
ReadStart ==
  /\ l_read.pc = "start"
  /\ l_read' = [l_read EXCEPT
                  !.pc = "loop",
                  !.buf_size = areadlink_initial_size(l_read.size),
                  !.sizes = <<areadlink_initial_size(l_read.size)>>]
  /\ UNCHANGED not_read_vars

\* an iteration where readlink fails: NULL with the errno of readlink
ReadFails ==
  /\ l_read.pc = "loop"
  /\ l_read.link_length = -1
  /\ l_read' = [l_read EXCEPT
                  !.pc = "done",
                  !.ret = [ok |-> FALSE, length |-> 0, errno |-> "ENOENT"]]
  /\ UNCHANGED not_read_vars

\* an iteration where the value fits: the buffer is returned
ReadFits ==
  /\ l_read.pc = "loop"
  /\ l_read.link_length >= 0
  /\ l_read.link_length < l_read.buf_size
  /\ l_read' = [l_read EXCEPT
                  !.pc = "done",
                  !.ret = [ok |-> TRUE, length |-> l_read.link_length,
                           errno |-> "OK"]]
  /\ UNCHANGED not_read_vars

\* an iteration where the value does not fit and the buffer can grow
ReadGrows ==
  /\ l_read.pc = "loop"
  /\ l_read.link_length >= l_read.buf_size
  /\ areadlink_grown(l_read.buf_size) # -1
  /\ l_read' = [l_read EXCEPT
                  !.buf_size = areadlink_grown(l_read.buf_size),
                  !.sizes = Append(l_read.sizes,
                                   areadlink_grown(l_read.buf_size))]
  /\ UNCHANGED not_read_vars

\* an iteration where the value does not fit and the buffer cannot grow
ReadNoMemory ==
  /\ l_read.pc = "loop"
  /\ l_read.link_length >= l_read.buf_size
  /\ areadlink_grown(l_read.buf_size) = -1
  /\ l_read' = [l_read EXCEPT
                  !.pc = "done",
                  !.ret = [ok |-> FALSE, length |-> 0, errno |-> "ENOMEM"]]
  /\ UNCHANGED not_read_vars

NextRead == ReadStart \/ ReadFails \/ ReadFits \/ ReadGrows \/ ReadNoMemory

\* the loop runs on: the call is one thread of control
SpecRead == InitRead /\ [][NextRead]_vars /\ WF_vars(NextRead)

(***************************************************************************)
(* exechelp_resolve_path on its own, for several values of PATH: the       *)
(* directories /t, /s, /b, the unsearchable /p and the missing /x, where   *)
(* v may be an executable file of /t and of /s besides /b.                 *)
(***************************************************************************)
P_x  == <<"/", "x">>
P_tv == <<"/", "t", "/", "v">>
P_sv == <<"/", "s", "/", "v">>

ResolveDirs == {P_t, P_s, P_b, P_p, P_x}

\* the values of PATH: unset, one or two directories, and some with an
\* empty entry
ResolvePaths ==
  {NULL} \cup ResolveDirs
  \cup {d \o <<":">> \o e : d \in ResolveDirs, e \in ResolveDirs}
  \cup {<<":">> \o P_b, P_t \o <<":">>, P_x \o <<":", ":">> \o P_b}

ResolveFiles == {<<"v">>, <<"f">>, <<"n">>, <<"l">>, <<"q">>}

\* the world of a call: the executable files extra besides those of TheFS
ResolveWorld(call) ==
  [fs |-> [f \in call.extra |-> Reg(IF f = P_tv THEN 13 ELSE 14, TRUE)] @@ TheFS,
   cwd |-> call.cwd, HOME |-> P_s, PATH |-> call.PATH, fds |-> TheFds,
   pol |-> [f \in PolicyPaths |-> Unreadable]]

InitResolve ==
  /\ s_call \in [extra : SUBSET {P_tv, P_sv}, cwd : {P_t, P_b}, PATH : ResolvePaths,
                 file : ResolveFiles, called : {FALSE}, ret : {NULL}]
  /\ OutsideResolve

\* a call of exechelp_resolve_path
Resolve ==
  /\ ~s_call.called
  /\ s_call' = [s_call EXCEPT
                  !.called = TRUE,
                  !.ret = exechelp_resolve_path(ResolveWorld(s_call), s_call.file)]
  /\ UNCHANGED not_resolve_vars

NextResolve == Resolve

SpecResolve == InitResolve /\ [][NextResolve]_vars

(***************************************************************************)
(* The hash table as a map: a client that creates a table with             *)
(* exechelp_str_hash and exechelp_str_equal and any destroy functions,     *)
(* then inserts, replaces, removes and empties, next to a reference map    *)
(* that is bound and unbound by the same calls.  Two keys have the same    *)
(* hash and first slot 1, two have first slot 2, one has first slot 3:     *)
(* removals leave tombstones on the ways of the others until the eight     *)
(* slots are occupied and the table is resized.                            *)
(***************************************************************************)
MapKeys == {<<"a", "b">>, <<"b", "A">>, <<"b", "B">>, <<"A", "b">>, <<"a">>}

\* the values the client binds to a key: one key is bound to two values
MapValues(key) == IF key = <<"a", "b">> THEN HashValues ELSE {1}

\* the destroy functions of the tables of the library: cache (common.c 185),
\* mtime and assoc->index (common.c 186 and 279), the table of seen links
\* (realpath.c 126)
MapDestroyFuncs == {<<NoFunc, "free">>, <<NoFunc, NoFunc>>, <<"free", "free">>}

\* the reference map with nothing bound
EmptyRef == [k \in MapKeys |-> 0]

InitMap ==
  /\ m_tab = NoTable
  /\ m_op = NoMapOp
  /\ m_ref = <<>>
  /\ OutsideMap

\* the client runs on: it has a table and the process is alive
MapLive == ~m_tab.null /\ ~m_op.fault

\* the operation called name returned r; the reference map becomes ref
\* unless the process died in the call
MapReturned(name, r, ref) ==
  /\ m_tab' = r.t
  /\ m_op' = [name |-> name, ret |-> r.ret, fault |-> r.fault]
  /\ m_ref' = IF r.fault THEN m_ref ELSE ref
  /\ UNCHANGED not_map_vars

MapNewFull ==
  /\ m_tab.null
  /\ \E funcs \in MapDestroyFuncs :
       MapReturned("new_full",
                   HashResult(exechelp_hash_table_new_full(funcs[1], funcs[2]),
                              <<>>, <<>>, FALSE, 0),
                   EmptyRef)

MapInsert ==
  /\ MapLive
  /\ \E key \in MapKeys :
       \E value \in MapValues(key) :
       MapReturned("insert", exechelp_hash_table_insert(m_tab, key, value),
                   [m_ref EXCEPT ![key] = value])

MapReplace ==
  /\ MapLive
  /\ \E key \in MapKeys :
       \E value \in MapValues(key) :
       MapReturned("replace", exechelp_hash_table_replace(m_tab, key, value),
                   [m_ref EXCEPT ![key] = value])

MapRemove ==
  /\ MapLive
  /\ \E key \in MapKeys :
       MapReturned("remove", exechelp_hash_table_remove(m_tab, key),
                   [m_ref EXCEPT ![key] = 0])

MapRemoveAll ==
  /\ MapLive
  /\ \E ub \in NullCallOutcomes :
       MapReturned("remove_all", exechelp_hash_table_remove_all(m_tab, ub),
                   EmptyRef)

NextMap ==
  \/ MapNewFull
  \/ MapInsert
  \/ MapReplace
  \/ MapRemove
  \/ MapRemoveAll

SpecMap == InitMap /\ [][NextMap]_vars

(***************************************************************************)
(* Two threads of one process, each in its first intercepted call.  A      *)
(* thread first asks for the association registry                          *)
(* (exechelp_is_associated_helper), then reads the managed-files list and  *)
(* uses the buffer returned (exechelp_targets_sandbox_managed_file).  The  *)
(* code                                                                    *)
(* takes no lock, so a step is one statement and every read of a static    *)
(* reads memory.  Pointers are positions in sh.regs, sh.tables and         *)
(* sh.heap, 0 is NULL.  A table is modelled by its entry for the one file  *)
(* path used: val is the list buffer (cache) or the time (mtime), 0 for no *)
(* entry.  A list buffer records whether it was freed: "no", or the        *)
(* operation that freed it.  Another process rewrites the policy file.     *)
(***************************************************************************)
\* pc of thread t becomes pc, the shared memory is left alone
Goto(t, pc) == th' = [th EXCEPT ![t].pc = pc] /\ UNCHANGED sh

\* thread t is at the statement pc of a process that runs
At(t, pc) == ~sh.crashed /\ th[t].pc = pc

\* the process dies of a fault in thread t
Crash(t) == sh' = [sh EXCEPT !.crashed = TRUE] /\ UNCHANGED th

\* the table pointer p points to a table that was freed
Dangling(p) == p # 0 /\ ~sh.tables[p].alive

NewTable(kind) == [kind |-> kind, alive |-> TRUE, val |-> 0]

\* "if(!assoc)" of exechelp_get_binary_associations
AssocCheck(t) ==
  /\ At(t, "assoc_check")
  /\ Goto(t, IF sh.assoc = 0 THEN "assoc_malloc" ELSE "assoc_return")
  /\ UNCHANGED not_thread_vars

\* "assoc = malloc (...)": the static points to a registry without index
\* and lists
AssocMalloc(t) ==
  /\ At(t, "assoc_malloc")
  /\ sh' = [sh EXCEPT !.regs = Append(@, [built |-> FALSE]),
                      !.assoc = Len(sh.regs) + 1]
  /\ th' = [th EXCEPT ![t].pc = "assoc_build", ![t].my_reg = Len(sh.regs) + 1]
  /\ UNCHANGED not_thread_vars

\* the statements that fill the index and the lists through the static,
\* which the build reads from memory or keeps in a register
AssocBuild(t) ==
  /\ At(t, "assoc_build")
  /\ \E reg \in {sh.assoc, th[t].my_reg} :
       sh' = [sh EXCEPT !.regs[reg].built = TRUE]
  /\ th' = [th EXCEPT ![t].pc = "assoc_return"]
  /\ UNCHANGED not_thread_vars

\* "return assoc" and the lookups of exechelp_is_associated_helper in it
AssocReturn(t) ==
  /\ At(t, "assoc_return")
  /\ th' = [th EXCEPT ![t].pc = "cache_check", ![t].used_reg = sh.assoc,
                      ![t].reg_built = sh.regs[sh.assoc].built]
  /\ UNCHANGED sh
  /\ UNCHANGED not_thread_vars

\* "if (!cache || !mtime)" at the start of exechelp_read_list_from_file
CacheCheck(t) ==
  /\ At(t, "cache_check")
  /\ Goto(t, IF sh.cache = 0 \/ sh.mtime = 0 THEN "destroy_cache" ELSE "stat")
  /\ UNCHANGED not_thread_vars

\* "if (cache) exechelp_hash_table_destroy(cache)": the destroy of a freed
\* table is a fault; the destroy of a table with an entry calls the NULL
\* key_destroy_func, then free on the list buffer
DestroyCache(t) ==
  /\ At(t, "destroy_cache")
  /\ IF sh.cache = 0 THEN Goto(t, "destroy_mtime")
     ELSE IF Dangling(sh.cache) THEN Crash(t)
     ELSE \E ub \in NullCallOutcomes :
       IF sh.tables[sh.cache].val # 0 /\ ub = "segv" THEN Crash(t)
       ELSE /\ sh' = [sh EXCEPT
                        !.heap = IF sh.tables[sh.cache].val # 0
                                 THEN [@ EXCEPT ![sh.tables[sh.cache].val].freed =
                                                  "destroy"]
                                 ELSE @,
                        !.tables[sh.cache].alive = FALSE]
            /\ th' = [th EXCEPT ![t].pc = "null_cache"]
  /\ UNCHANGED not_thread_vars

\* "cache = NULL" after the destroy
NullCache(t) ==
  /\ At(t, "null_cache")
  /\ sh' = [sh EXCEPT !.cache = 0]
  /\ th' = [th EXCEPT ![t].pc = "destroy_mtime"]
  /\ UNCHANGED not_thread_vars

\* "if (mtime) exechelp_hash_table_destroy(mtime)"
DestroyMtime(t) ==
  /\ At(t, "destroy_mtime")
  /\ IF sh.mtime = 0 THEN Goto(t, "new_cache")
     ELSE IF Dangling(sh.mtime) THEN Crash(t)
     ELSE /\ sh' = [sh EXCEPT !.tables[sh.mtime].alive = FALSE]
          /\ th' = [th EXCEPT ![t].pc = "null_mtime"]
  /\ UNCHANGED not_thread_vars

\* "mtime = NULL" after the destroy
NullMtime(t) ==
  /\ At(t, "null_mtime")
  /\ sh' = [sh EXCEPT !.mtime = 0]
  /\ th' = [th EXCEPT ![t].pc = "new_cache"]
  /\ UNCHANGED not_thread_vars

\* "cache = exechelp_hash_table_new_full(..., NULL, free)"
NewCache(t) ==
  /\ At(t, "new_cache")
  /\ sh' = [sh EXCEPT !.tables = Append(@, NewTable("cache")),
                      !.cache = Len(sh.tables) + 1]
  /\ th' = [th EXCEPT ![t].pc = "new_mtime"]
  /\ UNCHANGED not_thread_vars

\* "mtime = exechelp_hash_table_new_full(..., NULL, NULL)"
NewMtime(t) ==
  /\ At(t, "new_mtime")
  /\ sh' = [sh EXCEPT !.tables = Append(@, NewTable("mtime")),
                      !.mtime = Len(sh.tables) + 1]
  /\ th' = [th EXCEPT ![t].pc = "recheck"]
  /\ UNCHANGED not_thread_vars

\* "if (!cache || !mtime) return NULL;"
Recheck(t) ==
  /\ At(t, "recheck")
  /\ IF sh.cache = 0 \/ sh.mtime = 0
     THEN th' = [th EXCEPT ![t].pc = "use", ![t].list = 0] /\ UNCHANGED sh
     ELSE Goto(t, "stat")
  /\ UNCHANGED not_thread_vars

\* "if(stat(file_path, &sb) == 0) last_access = sb.st_mtim.tv_sec;"
Stat(t) ==
  /\ At(t, "stat")
  /\ th' = [th EXCEPT ![t].pc = "cached_access",
                      ![t].last_access = last_access_of(
                         [stat_ok |-> TRUE, st_mtime |-> sh.st_mtime])]
  /\ UNCHANGED sh
  /\ UNCHANGED not_thread_vars

\* the lookup of cached_access in mtime, and "if (must_refresh)"
CachedAccess(t) ==
  /\ At(t, "cached_access")
  /\ IF Dangling(sh.mtime) THEN Crash(t)
     ELSE /\ th' = [th EXCEPT
                      ![t].cached_access =
                        IF sh.mtime = 0 THEN 0 ELSE sh.tables[sh.mtime].val,
                      ![t].pc =
                        IF must_refresh(
                             th[t].last_access,
                             IF sh.mtime = 0 THEN 0 ELSE sh.tables[sh.mtime].val)
                        THEN "read" ELSE "lookup"]
          /\ UNCHANGED sh
  /\ UNCHANGED not_thread_vars

\* fopen, malloc and fread of new_list
ReadFile(t) ==
  /\ At(t, "read")
  /\ sh' = [sh EXCEPT !.heap = Append(@, [freed |-> "no"])]
  /\ th' = [th EXCEPT ![t].pc = "remove_cache", ![t].new_list = Len(sh.heap) + 1]
  /\ UNCHANGED not_thread_vars

\* "exechelp_hash_table_remove(cache, file_path)": the value_destroy_func
\* free is called on the list buffer of the entry
RemoveCache(t) ==
  /\ At(t, "remove_cache")
  /\ IF Dangling(sh.cache) THEN Crash(t)
     ELSE /\ sh' = IF sh.cache = 0 \/ sh.tables[sh.cache].val = 0 THEN sh
                   ELSE [sh EXCEPT !.heap[sh.tables[sh.cache].val].freed = "remove",
                                   !.tables[sh.cache].val = 0]
          /\ th' = [th EXCEPT ![t].pc = "remove_mtime"]
  /\ UNCHANGED not_thread_vars

\* "exechelp_hash_table_remove(mtime, file_path)"
RemoveMtime(t) ==
  /\ At(t, "remove_mtime")
  /\ IF Dangling(sh.mtime) THEN Crash(t)
     ELSE /\ sh' = IF sh.mtime = 0 THEN sh
                   ELSE [sh EXCEPT !.tables[sh.mtime].val = 0]
          /\ th' = [th EXCEPT ![t].pc = "insert_cache"]
  /\ UNCHANGED not_thread_vars

\* "exechelp_hash_table_insert(cache, file_path, new_list)": the value of an
\* entry that exists is handed to free
InsertCache(t) ==
  /\ At(t, "insert_cache")
  /\ IF Dangling(sh.cache) THEN Crash(t)
     ELSE /\ sh' = IF sh.cache = 0 THEN sh
                   ELSE [sh EXCEPT
                           !.heap = IF sh.tables[sh.cache].val # 0
                                    THEN [@ EXCEPT ![sh.tables[sh.cache].val].freed =
                                                     "insert"]
                                    ELSE @,
                           !.tables[sh.cache].val = th[t].new_list]
          /\ th' = [th EXCEPT ![t].pc = "insert_mtime"]
  /\ UNCHANGED not_thread_vars

\* "exechelp_hash_table_insert(mtime, file_path, last_access)" and
\* "return new_list"
InsertMtime(t) ==
  /\ At(t, "insert_mtime")
  /\ IF Dangling(sh.mtime) THEN Crash(t)
     ELSE /\ sh' = IF sh.mtime = 0 THEN sh
                   ELSE [sh EXCEPT !.tables[sh.mtime].val = th[t].last_access]
          /\ th' = [th EXCEPT ![t].pc = "use", ![t].list = th[t].new_list]
  /\ UNCHANGED not_thread_vars

\* "char *list = exechelp_hash_table_lookup(cache, file_path); return list;"
Lookup(t) ==
  /\ At(t, "lookup")
  /\ IF Dangling(sh.cache) THEN Crash(t)
     ELSE /\ th' = [th EXCEPT ![t].pc = "use",
                              ![t].list = IF sh.cache = 0 THEN 0
                                          ELSE sh.tables[sh.cache].val]
          /\ UNCHANGED sh
  /\ UNCHANGED not_thread_vars

\* the caller reads the list returned, if any, in
\* exechelp_file_list_contains_path, and returns from the intercepted call
UseList(t) ==
  /\ At(t, "use")
  /\ th' = [th EXCEPT ![t].pc = "done",
                      ![t].read_freed =
                        IF th[t].list = 0 THEN "no" ELSE sh.heap[th[t].list].freed]
  /\ UNCHANGED sh
  /\ UNCHANGED not_thread_vars

\* another process rewrites the policy file
TouchFile ==
  /\ ~sh.crashed
  /\ sh.st_mtime < MaxMtime
  /\ sh' = [sh EXCEPT !.st_mtime = @ + 1]
  /\ UNCHANGED th
  /\ UNCHANGED not_thread_vars

InitThreads ==
  /\ sh = NoShared
  /\ th = [t \in Threads |-> ThreadStart]
  /\ OutsideThreads

NextThreads ==
  \/ \E t \in Threads : AssocCheck(t)
  \/ \E t \in Threads : AssocMalloc(t)
  \/ \E t \in Threads : AssocBuild(t)
  \/ \E t \in Threads : AssocReturn(t)
  \/ \E t \in Threads : CacheCheck(t)
  \/ \E t \in Threads : DestroyCache(t)
  \/ \E t \in Threads : NullCache(t)
  \/ \E t \in Threads : DestroyMtime(t)
  \/ \E t \in Threads : NullMtime(t)
  \/ \E t \in Threads : NewCache(t)
  \/ \E t \in Threads : NewMtime(t)
  \/ \E t \in Threads : Recheck(t)
  \/ \E t \in Threads : Stat(t)
  \/ \E t \in Threads : CachedAccess(t)
  \/ \E t \in Threads : ReadFile(t)
  \/ \E t \in Threads : RemoveCache(t)
  \/ \E t \in Threads : RemoveMtime(t)
  \/ \E t \in Threads : InsertCache(t)
  \/ \E t \in Threads : InsertMtime(t)
  \/ \E t \in Threads : Lookup(t)
  \/ \E t \in Threads : UseList(t)
  \/ TouchFile

SpecThreads == InitThreads /\ [][NextThreads]_vars

(***************************************************************************)
(* Claims about the intercepted calls.                                     *)
(***************************************************************************)
\* the positions of the exec calls of one kind among the calls made so far
CallsOfKind(kind) == {i \in 1..Len(proc.trace) : proc.trace[i].kind = kind}

\* the intercepted call is over: it returned, or the process image is replaced
CallOver == proc.pc \in {"returned", "replaced"}

\* the filter scanned a decision array for the call in progress
Classified == proc.filtered /\ proc.decisions # NULL_ARRAY

\* the managed-files list of the call in progress is readable and empty
NoManagedFiles == world.pol[EXECHELP_MANAGED_FILES_PATH] = Readable(<<>>)

C2_DecisionConservatism ==
  (Classified
   /\ \E i \in 2..Len(proc.argv) : proc.decisions[i] = SANDBOX_MANAGED)
  => /\ proc.allowed_exec = NULL
     /\ proc.allowed_argv = NULL_ARRAY
     /\ proc.forbidden_exec = proc.path
     /\ UpToNull(proc.forbidden_argv) = proc.argv
     /\ CallsOfKind("allowed") = {}

\* a call that mixes a managed argument with a clear one has returned
C2_MixedArguments ==
  /\ proc.pc = "returned"
  /\ Classified
  /\ Len(proc.argv) = 3
  /\ proc.decisions[2] = SANDBOX_MANAGED
  /\ proc.decisions[3] = UNSPECIFIED

\* C3: when the allowed half is empty and the forbidden half is not, the call
\* makes exactly one sentinel exec with the caller's argv and envp, no allowed
\* exec, and returns -1 with errno EACCES whatever the sentinel exec left.
C3_RefusalPath ==
  (proc.pc = "returned" /\ proc.filtered
   /\ proc.allowed_exec = NULL /\ proc.forbidden_exec # NULL)
  => /\ Len(proc.trace) = 1
     /\ proc.trace[1].kind = "sentinel"
     /\ proc.trace[1].argv = proc.argv
     /\ proc.trace[1].envp = proc.envp
     /\ proc.ret_value = -1
     /\ proc.errno = "EACCES"

\* a refused call of execvpe has returned after its sentinel exec
C3_Refused ==
  /\ proc.pc = "returned"
  /\ proc.entry = "execvpe"
  /\ proc.allowed_exec = NULL
  /\ proc.forbidden_exec = P_bv
  /\ proc.argv = << <<"v">>, P_sm >>
  /\ CallsOfKind("sentinel") = {1}

\* C4: when every tag of the decision array is within {HELPERS, UNSPECIFIED},
\* the decision is ((target, argv), empty), and the call makes exactly one
\* exec, of the caller's target with an argv equal to the caller's, and no
\* sentinel exec.
C4_AllClearPath ==
  (Classified
   /\ \A i \in 1..Len(proc.argv) : proc.decisions[i] \in {HELPERS, UNSPECIFIED})
  => /\ proc.allowed_exec = proc.path
     /\ UpToNull(proc.allowed_argv) = proc.argv
     /\ proc.forbidden_exec = NULL
     /\ proc.forbidden_argv = NULL_ARRAY
     /\ CallOver =>
          /\ Len(proc.trace) = 1
          /\ proc.trace[1].kind = "allowed"
          /\ proc.trace[1].argv = proc.argv
          /\ proc.trace[1].envp = proc.envp
          /\ proc.entry = "execve" => proc.trace[1].path = proc.path
          /\ proc.entry = "execvpe" => proc.trace[1].path = proc.file
          /\ proc.entry = "fexecve" => proc.trace[1].fd = proc.fd

\* execve of the helper with two clear arguments replaced the process image
C4_AllClearExec ==
  /\ proc.pc = "replaced"
  /\ proc.entry = "execve"
  /\ proc.path = P_bf
  /\ Len(proc.argv) = 3
  /\ Classified

\* C5: execvpe("vlc", ["vlc", "a.mp3"]) with /usr/bin/vlc in managed-bins and
\* no managed file among the arguments makes a sentinel exec of
\* "/firejail/denied/" followed by the resolved path.
C5_ManagedBinDelegated ==
  (CallOver /\ proc.entry = "execvpe" /\ proc.file = <<"v">>
   /\ proc.argv = << <<"v">>, <<"x">> >>
   /\ proc.path = P_bv
   /\ world.pol[EXECHELP_MANAGED_BINS_PATH] = Readable(P_bv \o <<"\n">>)
   /\ NoManagedFiles)
  => \E i \in CallsOfKind("sentinel") :
       proc.trace[i].path = EXECHELP_MONITORED_EXEC_PATH \o P_bv

\* C6: with no managed-files list available, a call with a clear target ends
\* the decision with every argument treated as UNSPECIFIED and goes on to the
\* allowed exec, without a fault.
C6_UnreadableListIsEmpty ==
  (proc.filtered /\ proc.path # NULL /\ proc.argv # NULL_ARRAY
   /\ world.pol[EXECHELP_MANAGED_FILES_PATH] = Unreadable)
  => /\ proc.pc # "crashed"
     /\ proc.allowed_exec = proc.path
     /\ proc.forbidden_exec = NULL

(***************************************************************************)
(* Claims about the policy-file cache.                                     *)
(***************************************************************************)
\* a call of exechelp_read_list_from_file has returned and no file changed since
GotList == c_get.path # "none"

\* C11: after a get returned contents, if the file is written and its mtime
\* becomes greater than the recorded one, the next get reads the file again,
\* returns the new bytes, and records the observed mtime.
C11_RefreshOnNewerMtime ==
  (GotList /\ c_get.before_list # NULL
   /\ c_get.file.stat_ok /\ c_get.file.open_ok
   /\ c_get.file.st_mtime > c_get.before_mtime)
  => /\ c_get.opened
     /\ c_get.list = c_get.file.contents
     /\ cached_list(tb, c_get.path) = c_get.file.contents
     /\ cached_access_of(tb, c_get.path) = c_get.file.st_mtime

\* a get found the cached file rewritten one second later and returned the
\* new bytes
C11_Reloaded ==
  /\ GotList
  /\ c_get.before_list = <<>>
  /\ c_get.before_mtime = 1
  /\ c_get.file.st_mtime = 2
  /\ c_get.list = P_s \o <<"\n">>

\* C12: when the observed mtime equals the recorded one, the get returns the
\* cached contents without opening the file and leaves both tables unchanged.
C12_EqualMtimeKeepsCache ==
  (GotList /\ c_get.before_list # NULL
   /\ c_get.file.stat_ok /\ c_get.file.st_mtime = c_get.before_mtime)
  => /\ c_get.list = c_get.before_list
     /\ ~c_get.opened
     /\ c_get.tables_same

\* a get found the file rewritten within the recorded second and returned
\* the cached contents
C12_SameSecond ==
  /\ GotList
  /\ c_get.file.stat_ok /\ c_get.file.open_ok
  /\ c_get.before_mtime = 1 /\ c_get.file.st_mtime = 1
  /\ c_get.before_list = <<>>
  /\ c_get.file.contents # <<>>
  /\ c_get.list = <<>>

\* C13: when stat fails, the get returns the cached contents unchanged (none
\* if the path was never loaded) and modifies neither table.
C13_StatFailureKeepsCache ==
  (GotList /\ ~c_get.file.stat_ok)
  => /\ c_get.list = c_get.before_list
     /\ c_get.tables_same

\* stat failed on a cached file that was rewritten later and can be opened
C13_StatFailed ==
  /\ GotList
  /\ ~c_get.file.stat_ok /\ c_get.file.open_ok
  /\ c_get.file.st_mtime > c_get.before_mtime
  /\ c_get.before_list = <<>>
  /\ c_get.file.contents # <<>>
  /\ c_get.list = <<>>

\* C14: the two tables have the same keys, and every key's recorded mtime is
\* the mtime of the file when the get that loaded the stored contents read it.
C14_TablesConsistent ==
  /\ DOMAIN tb.cache = DOMAIN tb.mtime
  /\ DOMAIN tb.cache = DOMAIN c_loaded
  /\ \A k \in DOMAIN tb.cache :
       /\ cached_access_of(tb, k) = c_loaded[k].st_mtime
       /\ tb.cache[k] = c_loaded[k].contents

\* both paths are cached, one of them reloaded after a failed open
C14_TwoPathsLoaded ==
  /\ DOMAIN tb.cache = CachePaths
  /\ tb.mtime[EXECHELP_HELPER_BINS_PATH] = 1
  /\ tb.mtime[EXECHELP_MANAGED_FILES_PATH] = 2
  /\ GotList /\ c_get.opened /\ ~c_get.file.open_ok

(***************************************************************************)
(* Claims about policy-list membership.                                    *)
(***************************************************************************)
\* the pieces of s between occurrences of the character c, from offset off on
RECURSIVE SplitFrom(_, _, _)
SplitFrom(s, c, off) ==
  LET nl == strstr(s, <<c>>, off)
  IN  IF nl = -1 THEN <<Suffix(s, off)>>
      ELSE <<SubSeq(s, off + 1, nl)>> \o SplitFrom(s, c, nl + 1)

\* the entries of a policy list: its lines, a trailing newline adding none
Entries(list) ==
  LET pieces == SplitFrom(list, EXECHELP_FILE_SEPARATOR_CHR, 0)
  IN  IF pieces[Len(pieces)] = <<>> THEN SubSeq(pieces, 1, Len(pieces) - 1)
      ELSE pieces

\* C begins with E
BeginsWith(C, E) == Len(E) <= Len(C) /\ SubSeq(C, 1, Len(E)) = E

\* entry E matches candidate C on a path separator: C begins with E and the
\* byte of C right after E is '/' or the end of C
MatchesOnPathSep(E, C) ==
  BeginsWith(C, E) /\ (Len(C) = Len(E) \/ C[Len(E) + 1] = SLASH)

\* C7: the list matches candidate C if and only if C begins with some entry E
\* and the byte of C right after E is the path separator or the end of C.
C7_PrefixOnPathSeparator ==
  (q_ret # -1 /\ q_real # NULL) =>
    (q_ret = 1 <=> \E k \in 1..Len(Entries(q_managed)) :
                      MatchesOnPathSep(Entries(q_managed)[k], q_real))

(***************************************************************************)
(* Claims about the argument tags and the exec calls.                      *)
(***************************************************************************)
\* C8: an argument that is not file-like (no separator, and stat of its
\* canonical form fails with an error other than EACCES, ELOOP, EOVERFLOW) is
\* tagged UNSPECIFIED whatever the managed-files list and the working
\* directory are.
C8_NonFileIsUnspecified ==
  Classified =>
    \A i \in 2..Len(proc.argv) :
      proc.is_file[i] = 0 => proc.decisions[i] = UNSPECIFIED

\* C9: one intercepted call makes at most one sentinel exec and at most one
\* allowed exec, for each entry point and every decision.
C9_AtMostTwoAttempts ==
  /\ Cardinality(CallsOfKind("sentinel")) <= 1
  /\ Cardinality(CallsOfKind("allowed")) <= 1
  /\ Len(proc.trace) <= 2

\* the allowed exec of fexecve returned and the call ended without another
C9_AllowedAttemptFailed ==
  /\ proc.pc = "returned"
  /\ proc.entry = "fexecve"
  /\ CallsOfKind("allowed") = {1}
  /\ proc.ret_value = -1

\* C10: the target of every sentinel exec is "/firejail/denied/" followed by
\* the forbidden target's path, whole, in all three entry points.
C10_SentinelTarget ==
  \A i \in CallsOfKind("sentinel") :
    /\ proc.trace[i].path = EXECHELP_MONITORED_EXEC_PATH \o proc.path
    /\ proc.forbidden_exec = proc.path

\* the sentinel exec of a refused fexecve was made for the descriptor's file
C10_SentinelMade ==
  /\ proc.entry = "fexecve"
  /\ CallsOfKind("sentinel") = {1}
  /\ proc.trace[1].path = EXECHELP_MONITORED_EXEC_PATH \o P_bv

(***************************************************************************)
(* Claims about the association registry.                                  *)
(***************************************************************************)
\* the names of one member list
GroupMembers(group) == {group[j] : j \in 1..Len(group)}

\* C17: for every group of the registry and every two members x, y of its
\* member list, exechelp_is_associated_helper(x, y) returns 1 (and so, with
\* the names exchanged, exechelp_is_associated_helper(y, x) does too).
C17_AssociationSymmetry ==
  \A i \in 1..Len(a_reg.assoc) :
    \A x \in GroupMembers(a_reg.assoc[i]), y \in GroupMembers(a_reg.assoc[i]) :
      (a_call.caller = x /\ a_call.callee = y) => a_call.associated = 1

\* C18: in the registry as built by the first call, every value of the index
\* is the main key (the head) of exactly one member list, every key of the
\* index is an element of that list, and every element of a member list is a
\* key of the index.
C18_RegistryInvariant ==
  ~a_reg.null =>
    /\ \A k \in DOMAIN a_reg.index :
         Cardinality({i \in 1..Len(a_reg.assoc) :
                        a_reg.assoc[i][1] = a_reg.index[k]}) = 1
    /\ \A k \in DOMAIN a_reg.index : \A i \in 1..Len(a_reg.assoc) :
         a_reg.assoc[i][1] = a_reg.index[k] => k \in GroupMembers(a_reg.assoc[i])
    /\ \A i \in 1..Len(a_reg.assoc) :
         GroupMembers(a_reg.assoc[i]) \subseteq DOMAIN a_reg.index

(***************************************************************************)
(* Claims about the hash table.                                            *)
(***************************************************************************)
\* the positions of the nodes of a table
RealSlots(t) == {i \in 1..t.size : HASH_IS_REAL(t.hashes[i])}

\* how many times x occurs in a sequence
Occurrences(seq, x) == Cardinality({j \in 1..Len(seq) : seq[j] = x})

\* C19: when exechelp_hash_table_remove_all or exechelp_hash_table_destroy
\* was called on a table with nodes, no NULL function was called, the
\* key_destroy_func was called once on each key of the table if it is set and
\* not at all if it is NULL, and likewise the value_destroy_func on the values.
C19_DestroyCallbacksWhenSet ==
  (h_op.name \in {"remove_all", "destroy"} /\ ~h_op.before.null
   /\ h_op.before.nnodes > 0) =>
    /\ ~h_op.fault
    /\ \A k \in HashKeys :
         Occurrences(h_op.keys_destroyed, k) =
           IF h_op.before.key_destroy_func # NoFunc
              /\ \E i \in RealSlots(h_op.before) : h_op.before.keys[i] = k
           THEN 1 ELSE 0
    /\ \A v \in HashValues :
         Occurrences(h_op.values_destroyed, v) =
           IF h_op.before.value_destroy_func # NoFunc
           THEN Cardinality({i \in RealSlots(h_op.before) :
                               h_op.before.values[i] = v})
           ELSE 0

(***************************************************************************)
(* Claims about the canonicalizer.                                         *)
(***************************************************************************)
\* the mode of the call without the CAN_NOLINKS flag
CanonModeOf(call) == call.can_mode % CAN_NOLINKS

\* the call canonicalizes "a" where /t/a is the link a -> a
SelfLinkCall(call) == call.called /\ call.a_to = <<"a">> /\ call.name = <<"a">>

\* C20: when _exechelp_seen_triple finds the triple of a link a second time
\* during a call, the call fails with ELOOP in the modes CAN_EXISTING and
\* CAN_ALL_BUT_LAST, and in CAN_MISSING the link is skipped and the call
\* succeeds; the link a -> a gives ELOOP under CAN_EXISTING and its own name
\* /t/a under CAN_MISSING.
C20_CycleDetection ==
  /\ (k_call.called /\ k_call.ret.loop
      /\ CanonModeOf(k_call) \in {CAN_EXISTING, CAN_ALL_BUT_LAST})
       => (~k_call.ret.ok /\ k_call.ret.errno = "ELOOP")
  /\ (k_call.called /\ k_call.ret.loop /\ CanonModeOf(k_call) = CAN_MISSING)
       => k_call.ret.ok
  /\ (SelfLinkCall(k_call) /\ k_call.can_mode = CAN_EXISTING)
       => (~k_call.ret.ok /\ k_call.ret.errno = "ELOOP" /\ k_call.ret.loop)
  /\ (SelfLinkCall(k_call) /\ k_call.can_mode = CAN_MISSING)
       => (k_call.ret.ok /\ k_call.ret.val = P_ta /\ k_call.ret.loop)

\* with a -> c and c -> a, a call in the mode CAN_MISSING met a link a second
\* time and skipped it
C20_LoopMet ==
  /\ k_call.called
  /\ k_call.ret.loop
  /\ k_call.ret.ok
  /\ k_call.a_to = <<"c">>
  /\ k_call.c_to = <<"a">>
  /\ k_call.can_mode = CAN_MISSING

(***************************************************************************)
(* Claims about the threads.                                               *)
(***************************************************************************)
\* the tables of one kind created so far
TablesOfKind(kind) == {i \in 1..Len(sh.tables) : sh.tables[i].kind = kind}

\* C15: in every interleaving of the first calls of two threads, at most one
\* registry, one cache table and one mtime table are ever created, and the
\* threads use one and the same registry, which was fully built when used.
C15_SingletonsCreatedOnce ==
  /\ Len(sh.regs) <= 1
  /\ Cardinality(TablesOfKind("cache")) <= 1
  /\ Cardinality(TablesOfKind("mtime")) <= 1
  /\ \A t \in Threads : th[t].reg_built
  /\ \A t \in Threads, u \in Threads :
       (th[t].used_reg # 0 /\ th[u].used_reg # 0) => th[t].used_reg = th[u].used_reg

\* C16: no thread reads a list buffer that the refresh of another call freed
\* (the removal of the old entry of the cache, or its replacement).
C16_NoReadOfFreedBuffer ==
  \A t \in Threads : th[t].read_freed \notin {"remove", "insert"}

(***************************************************************************)
(* Claims about the results of the canonicalizer.                          *)
(***************************************************************************)
\* C21: the canonicalizer is idempotent: whenever a call succeeds, the call
\* on its result, in the same mode and the same file system, succeeds and
\* returns that result again (here with HOME a canonical name).
C21_Idempotent ==
  (k_call.again_called /\ k_call.home = P_s)
    => (k_call.again.ok /\ k_call.again.val = k_call.ret.val)

\* the component of p from position i to position j is "." or ".."
DotComponent(p, i, j) ==
  /\ (i = 1 \/ p[i - 1] = SLASH)
  /\ (j = Len(p) \/ p[j + 1] = SLASH)
  /\ SubSeq(p, i, j) \in {<<".">>, <<".", ".">>}

\* p starts with a slash and has neither "//" nor a component "." or ".."
Normalized(p) ==
  /\ p # <<>>
  /\ Head(p) = SLASH
  /\ \A i \in 1..(Len(p) - 1) : ~(p[i] = SLASH /\ p[i + 1] = SLASH)
  /\ \A i \in 1..Len(p) : \A j \in i..Len(p) : ~DotComponent(p, i, j)

\* C22: every name that a successful call of the canonicalizer returns starts
\* with '/', has no "//" and no component "." or "..", whether the input was
\* absolute, relative to the working directory or "~/" expanded from HOME,
\* whatever the value of HOME.
C22_ResultNormalized ==
  (k_call.called /\ k_call.ret.ok) => Normalized(k_call.ret.val)

\* the result of the canonicalizer on the name of the call in the mode
\* CAN_MISSING with the flag CAN_NOLINKS
NoLinksPass(call) == canonicalize_filename_mode(WorldOf(call), call.name, CAN_MISSING + CAN_NOLINKS)

\* C23: exechelp_coreutils_realpath runs the canonicalizer twice: the first
\* pass in CAN_MISSING with CAN_NOLINKS, which stats nothing and follows no
\* link, the second in CAN_MISSING without CAN_NOLINKS on the first one's
\* result, which resolves the links.
C23_TwoPasses ==
  k_call.real_called
    => /\ k_call.can_fname.ok = NoLinksPass(k_call).ok
       /\ k_call.can_fname.val = NoLinksPass(k_call).val
       /\ k_call.real = realpath_again(WorldOf(k_call), NoLinksPass(k_call), CAN_MISSING)

(***************************************************************************)
(* Claims about exechelp_coreutils_areadlink_with_size.                    *)
(***************************************************************************)
\* the buffer sizes of the call never exceed AREAD_MAX_SIZE, and its result is
\* ENOMEM exactly for a value of AREAD_MAX_SIZE bytes or more, and the whole
\* value otherwise, as areadlink_loop computes it
ReadResult ==
  /\ \A i \in 1..Len(l_read.sizes) : l_read.sizes[i] <= AREAD_MAX_SIZE
  /\ (l_read.pc = "done" /\ l_read.link_length >= AREAD_MAX_SIZE)
       => (~l_read.ret.ok /\ l_read.ret.errno = "ENOMEM")
  /\ (l_read.pc = "done" /\ l_read.link_length \in 0..(AREAD_MAX_SIZE - 1))
       => (l_read.ret.ok /\ l_read.ret.length = l_read.link_length)
  /\ (l_read.pc = "done" /\ l_read.link_length >= 0)
       => (l_read.ret.ok <=>
             areadlink_loop(l_read.link_length,
                            areadlink_initial_size(l_read.size)) # -1)

\* every buffer size after the first is twice the one before
OnlyDoubling ==
  \A i \in 1..(Len(l_read.sizes) - 1) : l_read.sizes[i + 1] = 2 * l_read.sizes[i]

\* every buffer size after the first is twice the one before, or it is
\* AREAD_MAX_SIZE where twice the one before is more than that
DoublingToCeiling ==
  \A i \in 1..(Len(l_read.sizes) - 1) :
    \/ l_read.sizes[i + 1] = 2 * l_read.sizes[i]
    \/ /\ l_read.sizes[i + 1] = AREAD_MAX_SIZE
       /\ l_read.sizes[i] < AREAD_MAX_SIZE
       /\ 2 * l_read.sizes[i] > AREAD_MAX_SIZE

\* C30 as stated: for every size hint and link length the buffer size only
\* grows by doubling, never exceeds 4096, and the loop terminates; a value
\* that does not fit below 4096 gives ENOMEM, a shorter one is returned whole.
C30_OnlyDoubling == [](OnlyDoubling /\ ReadResult) /\ <>(l_read.pc = "done")

\* C30 amended: for every size hint and link length the buffer size grows by
\* doubling, or by a last step to 4096 from a size above 2048, never exceeds
\* 4096, and the loop terminates; a value that does not fit below 4096 gives
\* ENOMEM, a shorter one is returned whole.
C30_DoublingToCeiling ==
  [](DoublingToCeiling /\ ReadResult) /\ <>(l_read.pc = "done")

\* a call that grew its buffer from 2404 to 4096 bytes and then gave up
C30_CeilingReached ==
  /\ l_read.pc = "done"
  /\ l_read.ret.errno = "ENOMEM"
  /\ Len(l_read.sizes) = 4
  /\ l_read.sizes[3] = 2404
  /\ l_read.sizes[4] = AREAD_MAX_SIZE

(***************************************************************************)
(* Claims about the search path.                                           *)
(***************************************************************************)
\* the entries of a search path, in order: the parts between its colons
RECURSIVE PathEntries(_)
PathEntries(path) ==
  IF ~strchr_found(path, ":") THEN <<path>>
  ELSE <<SubSeq(path, 1, strstr(path, <<":">>, 0))>>
         \o PathEntries(Suffix(path, strstr(path, <<":">>, 0) + 1))

\* the search path of a call: PATH, or the working directory and CS_PATH
SearchPathOf(call) == IF call.PATH = NULL THEN <<":">> \o CS_PATH ELSE call.PATH

\* the name tried for an entry: entry/file, the file alone for an empty entry
Candidate(entry, file) == IF entry = <<>> THEN file ELSE entry \o <<SLASH>> \o file

\* the positions of the entries of the search path where the file of the call
\* is executable
Hits(call) ==
  {i \in 1..Len(PathEntries(SearchPathOf(call))) :
     sys_access_x(ResolveWorld(call),
                  Candidate(PathEntries(SearchPathOf(call))[i], call.file)) = "OK"}

\* the first of a non-empty set of positions
First(S) == CHOOSE i \in S : \A j \in S : i <= j

\* C24: for a name without separator exechelp_resolve_path returns
\* directory/name for the first directory of the search path, in its order,
\* where the name is executable, whatever the directories after it hold, and
\* NULL when there is none; with PATH=/x:/b, /b/v executable and no /x/v,
\* the name v gives /b/v.
C24_FirstHitInOrder ==
  /\ (s_call.called /\ Hits(s_call) = {}) => s_call.ret = NULL
  /\ (s_call.called /\ Hits(s_call) # {})
       => s_call.ret = Candidate(PathEntries(SearchPathOf(s_call))[First(Hits(s_call))],
                                 s_call.file)
  /\ (s_call.called /\ s_call.PATH = P_x \o <<":">> \o P_b /\ s_call.file = <<"v">>)
       => s_call.ret = P_bv

\* with PATH=/s:/b and v executable in both, the call returned /s/v
C24_TwoHits ==
  /\ s_call.called
  /\ s_call.PATH = P_s \o <<":">> \o P_b
  /\ s_call.file = <<"v">>
  /\ P_sv \in s_call.extra
  /\ s_call.ret = P_sv

(***************************************************************************)
(* Claims about what the entry points return.                              *)
(***************************************************************************)
\* the call in progress is fexecve on a negative descriptor, or on one whose
\* link /proc/self/fd/<fd> cannot be read
BadDescriptor ==
  /\ proc.entry = "fexecve"
  /\ (proc.fd < 0 \/ world.fds[proc.fd] = NULL)

\* C25: fexecve on a negative descriptor, or on a descriptor whose link
\* /proc/self/fd/<n> cannot be read, returns -1 with errno EINVAL and makes
\* no exec call at all, neither of the sentinel nor of the allowed half.
C25_BadDescriptorEinval ==
  BadDescriptor
    => /\ proc.pc = "returned"
       /\ proc.ret_value = -1
       /\ proc.errno = "EINVAL"
       /\ proc.trace = <<>>
       /\ proc.plan = <<>>

\* fexecve returned on the descriptor 4, whose link cannot be read
C25_UnreadableLink == BadDescriptor /\ proc.fd = 4 /\ proc.pc = "returned"

\* the call in progress is execvpe on a file name that the search path does
\* not resolve
Unresolved ==
  /\ proc.entry = "execvpe"
  /\ exechelp_resolve_path(world, proc.file) = NULL

\* C26: when exechelp_resolve_path fails for the file name, execvpe returns
\* -1 with errno ENOENT, makes no exec call and never calls the filter, so
\* no decision is taken.
C26_UnresolvedEnoent ==
  Unresolved
    => /\ proc.pc = "returned"
       /\ proc.ret_value = -1
       /\ proc.errno = "ENOENT"
       /\ proc.trace = <<>>
       /\ proc.plan = <<>>
       /\ ~proc.filtered
       /\ proc.decisions = NULL_ARRAY
       /\ proc.allowed_exec = NULL
       /\ proc.forbidden_exec = NULL

\* execvpe returned on the name q, which no directory of PATH holds
C26_NameNotFound == Unresolved /\ proc.file = <<"q">> /\ proc.pc = "returned"

\* the step is the exec call of the allowed half, and the call returns
AllowedExecReturns ==
  /\ proc.pc = "dispatch"
  /\ proc'.pc = "dispatch"
  /\ Len(proc'.trace) = Len(proc.trace) + 1
  /\ proc'.trace[Len(proc'.trace)].kind = "allowed"

\* the step is the return of an entry point whose allowed half is not empty
ReturnsAllowed ==
  /\ proc.pc = "dispatch"
  /\ proc'.pc = "returned"
  /\ proc.allowed_exec # NULL

\* C27: when the allowed half is not empty and its exec call returns, that
\* call is the last thing the entry point does before it returns, and the
\* entry point returns the value and the errno that the exec call left,
\* unchanged by the frees in between.
C27_AllowedFailurePropagates ==
  [][/\ AllowedExecReturns
        => /\ proc'.ret_value = -1
           /\ proc'.errno \in ExecErrnos
           /\ proc'.next > Len(proc'.plan)
     /\ ReturnsAllowed
        => /\ proc.trace # <<>>
           /\ proc.trace[Len(proc.trace)].kind = "allowed"
           /\ proc'.ret_value = proc.ret_value
           /\ proc'.errno = proc.errno]_vars

\* an entry point returned -1 and ENOEXEC, which the exec call of its allowed
\* half had left
C27_ReturnedExecFailure ==
  /\ proc.pc = "returned"
  /\ proc.allowed_exec # NULL
  /\ proc.trace # <<>>
  /\ proc.trace[Len(proc.trace)].kind = "allowed"
  /\ proc.ret_value = -1
  /\ proc.errno = "ENOEXEC"

(***************************************************************************)
(* Claims about the tags of the arguments.                                 *)
(***************************************************************************)
\* the lines of a list buffer, in order: the parts that its newlines end
RECURSIVE ListLines(_)
ListLines(managed) ==
  IF managed = <<>> THEN <<>>
  ELSE IF ~strchr_found(managed, "\n") THEN <<managed>>
  ELSE <<SubSeq(managed, 1, strstr(managed, <<"\n">>, 0))>>
         \o ListLines(Suffix(managed, strstr(managed, <<"\n">>, 0) + 1))

\* the line, taken on its own, matches the canonical form real
MatchesLine(real, line) ==
  exechelp_str_has_prefix_on_sep(real, line, EXECHELP_FILE_SEPARATOR_CHR) = 1

\* some line of the list matches the canonical form real
SomeLineMatches(managed, real) ==
  \E k \in 1..Len(ListLines(managed)) : MatchesLine(real, ListLines(managed)[k])

\* the contents of the managed-files list that the call in progress read
ManagedFiles == world.pol[EXECHELP_MANAGED_FILES_PATH].contents

\* the list of the lines /tmp/a and /tmp/b
TmpList ==
  <<"/", "t", "m", "p", "/", "a", "\n", "/", "t", "m", "p", "/", "b", "\n">>

\* C28: an argument is tagged SANDBOX_MANAGED when some line of the
\* managed-files list, the first or a later one, matches its canonical form,
\* and UNSPECIFIED when no line does; with the lines /tmp/a and /tmp/b,
\* /tmp/b/sub/file is SANDBOX_MANAGED and /tmp/c is UNSPECIFIED.
C28_AnyLineTags ==
  /\ Classified
       => \A i \in 2..Len(proc.argv) :
            proc.decisions[i] = IF SomeLineMatches(ManagedFiles, proc.reals[i])
                                THEN SANDBOX_MANAGED ELSE UNSPECIFIED
  /\ tag_of_real(TmpList, <<"/", "t", "m", "p", "/", "b", "/", "s", "u", "b", "/",
                            "f", "i", "l", "e">>) = SANDBOX_MANAGED
  /\ tag_of_real(TmpList, <<"/", "t", "m", "p", "/", "c">>) = UNSPECIFIED

\* with the lines /p and /s, the argument /s/m was tagged SANDBOX_MANAGED by
\* the second line and the argument x, which is /t/x, UNSPECIFIED
C28_SecondLineMatched ==
  /\ Classified
  /\ ManagedFiles = P_p \o <<"\n">> \o P_s \o <<"\n">>
  /\ proc.argv = << <<"v">>, P_sm, <<"x">> >>
  /\ proc.reals[2] = P_sm
  /\ proc.reals[3] = P_t \o <<"/", "x">>
  /\ proc.decisions = <<HELPERS, SANDBOX_MANAGED, UNSPECIFIED, NOTHING>>

\* the arguments of the call in progress that have no canonical form
Uncanonical == {i \in 2..Len(proc.argv) : proc.reals[i] = NULL}

\* C29: an argument whose canonicalization fails is tagged UNSPECIFIED, the
\* other arguments get the tags they have on their own, and when no other
\* argument is tagged SANDBOX_MANAGED the call is not refused: its allowed
\* half holds the target and every argument, and its forbidden half is empty.
C29_FailureAbsorbed ==
  (Classified /\ Uncanonical # {})
    => /\ Len(proc.decisions) = Len(proc.argv) + 1
       /\ \A i \in Uncanonical : proc.decisions[i] = UNSPECIFIED
       /\ \A i \in (2..Len(proc.argv)) \ Uncanonical :
            proc.decisions[i] = tag_of_real(ManagedFiles, proc.reals[i])
       /\ (proc.path # NULL /\ \A i \in 2..Len(proc.argv) : proc.decisions[i] = UNSPECIFIED)
            => /\ proc.pc # "crashed"
               /\ proc.allowed_exec = proc.path
               /\ proc.forbidden_exec = NULL
               /\ UpToNull(proc.allowed_argv) = proc.argv
               /\ CallsOfKind("sentinel") = {}
               /\ (proc.pc = "returned" => CallsOfKind("allowed") # {})

\* a call went on to the exec of its allowed half with the arguments ~x, whose
\* canonicalization fails, and x
C29_WentOn ==
  /\ Classified
  /\ proc.argv = << <<"v">>, <<"~", "x">>, <<"x">> >>
  /\ proc.reals[2] = NULL
  /\ proc.reals[3] # NULL
  /\ proc.decisions = <<HELPERS, UNSPECIFIED, UNSPECIFIED, NOTHING>>
  /\ proc.trace # <<>>
  /\ proc.trace[1].kind = "allowed"
  /\ proc.trace[1].argv = proc.argv

(***************************************************************************)
(* Claims about names that start with "~/".                                *)
(***************************************************************************)
\* the call in progress was made on a name that starts with "~/"
TildeCall ==
  k_call.called /\ Len(k_call.name) >= 2 /\ SubSeq(k_call.name, 1, 2) = <<"~", SLASH>>

\* the output buffer out after the components of rest were applied to it by
\* their spelling alone: "." leaves it, ".." drops its last component, any
\* other component is added after a slash
RECURSIVE Lexical(_, _)
Lexical(out, rest) ==
  IF SkipSlashes(rest) = <<>> THEN out
  ELSE Lexical(
         IF SubSeq(SkipSlashes(rest), 1, CompLen(SkipSlashes(rest))) = <<".">>
         THEN out
         ELSE IF SubSeq(SkipSlashes(rest), 1, CompLen(SkipSlashes(rest))) = <<".", ".">>
              THEN BackUp(out)
              ELSE CanonAppend(out, SubSeq(SkipSlashes(rest), 1,
                                           CompLen(SkipSlashes(rest)))),
         Suffix(SkipSlashes(rest), CompLen(SkipSlashes(rest))))

\* Lexical without a slash that ends it, unless it is the root
LexicalName(out, rest) == CanonDone(Lexical(out, rest)).val

\* the world of the spec's example: HOME=/home/u, no file below it
HomeU == <<"/", "h", "o", "m", "e", "/", "u">>
ExampleWorld == [CanonWorld(<<"n">>, <<"n">>, HomeU) EXCEPT !.fs = (ROOT :> Dir(1))]

\* C31: for a name that starts with "~/" the tilde is replaced by the value
\* of HOME and the components after it are normalized as those of any name:
\* "." is skipped, ".." removes the component before it and never goes above
\* the root; "~/docs/./../docs" with HOME=/home/u gives /home/u/docs; the
\* call fails when HOME is not set.
C31_TildeExpansion ==
  /\ (TildeCall /\ k_call.home = NULL) => ~k_call.ret.ok
  /\ (TildeCall /\ k_call.home # NULL /\ k_call.can_mode = CAN_MISSING + CAN_NOLINKS)
       => /\ k_call.ret.ok
          /\ k_call.ret.val = LexicalName(k_call.home, Suffix(k_call.name, 2))
  /\ (TildeCall /\ k_call.home \in {P_s, ROOT})
       => /\ k_call.ret.ok = canonicalize_filename_mode(WorldOf(k_call), k_call.home \o Suffix(k_call.name, 1), k_call.can_mode).ok
          /\ k_call.ret.val = canonicalize_filename_mode(WorldOf(k_call), k_call.home \o Suffix(k_call.name, 1), k_call.can_mode).val
  /\ (TildeCall /\ k_call.home = ROOT /\ k_call.name = <<"~", "/", ".", ".", "/", ".", ".", "/", "t">>)
       => (k_call.ret.ok /\ k_call.ret.val = P_t)
  /\ canonicalize_filename_mode(ExampleWorld, <<"~", "/", "d", "o", "c", "s", "/", ".", "/", ".", ".", "/", "d", "o", "c", "s">>, CAN_MISSING).val = HomeU \o <<"/", "d", "o", "c", "s">>

\* the call on "~/t/./../t" with HOME=/ returned /t in the mode CAN_EXISTING
C31_HomeExpanded ==
  /\ TildeCall
  /\ k_call.home = ROOT
  /\ k_call.name = <<"~", "/", "t", "/", ".", "/", ".", ".", "/", "t">>
  /\ k_call.can_mode = CAN_EXISTING
  /\ k_call.ret.ok
  /\ k_call.ret.val = P_t

(***************************************************************************)
(* Claims about empty entries of the search path.                          *)
(***************************************************************************)
\* the positions of the empty entries of the search path that the loop
\* reaches: no entry before them holds the file as an executable
EmptyEntriesReached(call) ==
  {i \in 1..Len(PathEntries(SearchPathOf(call))) :
     /\ PathEntries(SearchPathOf(call))[i] = <<>>
     /\ \A j \in Hits(call) : j >= i}

\* the file of the call is executable in the working directory
InWorkingDirectory(call) ==
  sys_access_x(ResolveWorld(call), call.cwd \o <<SLASH>> \o call.file) = "OK"

\* C32: an empty entry of the search path (a colon at its start or its end,
\* or two colons in a row) stands for the working directory: when the loop
\* reaches it, the name tested is the bare file name, so the call returns
\* the bare file name exactly when the file is executable in the working
\* directory.
C32_EmptyEntryIsCwd ==
  (s_call.called /\ EmptyEntriesReached(s_call) # {})
    => (s_call.ret = s_call.file <=> InWorkingDirectory(s_call))

\* with PATH=/t: and the working directory /b, f was not found in /t and the
\* call returned the bare name f
C32_TrailingColon ==
  /\ s_call.called
  /\ s_call.PATH = P_t \o <<":">>
  /\ s_call.cwd = P_b
  /\ s_call.file = <<"f">>
  /\ s_call.ret = <<"f">>


\* the keys the reference map binds
LiveKeys == {k \in MapKeys : m_ref[k] # 0}

\* the slots of the table with a tombstone
MapTombstones == {i \in 1..m_tab.size : HASH_IS_TOMBSTONE(m_tab.hashes[i])}

\* C33: after any sequence of insert, replace, remove and remove_all of a
\* living client, exechelp_hash_table_lookup of every key returns the value
\* the reference map binds to it (the value of the latest insert or replace
\* not followed by a removal) and NULL for a key it does not bind,
\* exechelp_hash_table_contains tells whether the key is bound,
\* exechelp_hash_table_size is the number of bound keys, an insert returns 1
\* exactly for a key that is not bound and a remove returns 1 exactly for a
\* key that is bound.
C33_RefinesMap ==
  MapLive =>
    /\ \A k \in MapKeys :
         /\ exechelp_hash_table_lookup(m_tab, k) = m_ref[k]
         /\ exechelp_hash_table_contains(m_tab, k) <=> k \in LiveKeys
         /\ exechelp_hash_table_remove(m_tab, k).ret = 1 <=> k \in LiveKeys
         /\ \A v \in MapValues(k) :
              exechelp_hash_table_insert(m_tab, k, v).ret = 1 <=> k \notin LiveKeys
    /\ exechelp_hash_table_size(m_tab) = Cardinality(LiveKeys)

\* C33 witness: the table was resized to sixteen slots, a removal left a
\* tombstone in it, the two keys of one hash are both bound, one to the
\* value of its second insert, and the last call replaced a bound key.
C33_ResizedWithTombstone ==
  /\ MapLive
  /\ m_tab.size = 16
  /\ MapTombstones # {}
  /\ exechelp_hash_table_lookup(m_tab, <<"a", "b">>) = 2
  /\ exechelp_hash_table_lookup(m_tab, <<"b", "A">>) = 1
  /\ exechelp_hash_table_lookup(m_tab, <<"a">>) = 0
  /\ m_op.name = "replace" /\ m_op.ret = 0

\* C40: after every public operation of a living client nnodes is the
\* number of slots with a real hash, noccupied is nnodes plus the number of
\* tombstones and is less than size, so that a slot is unused and the loop
\* of exechelp_hash_table_lookup_node ends.
C40_Occupancy ==
  MapLive =>
    /\ m_tab.nnodes = Cardinality(RealSlots(m_tab))
    /\ m_tab.noccupied = m_tab.nnodes + Cardinality(MapTombstones)
    /\ m_tab.noccupied < m_tab.size
    /\ \E i \in 1..m_tab.size : HASH_IS_UNUSED(m_tab.hashes[i])

\* C40 witness: seven of the eight slots are occupied, three of them by
\* tombstones: the next insert into an unused slot resizes the table.
C40_OneSlotLeft ==
  /\ MapLive
  /\ m_tab.size = 8
  /\ m_tab.noccupied = 7
  /\ Cardinality(MapTombstones) = 3
  /\ m_op.name = "insert" /\ m_op.ret = 1

\* the named policy list as the call in progress reads it, NULL when it
\* cannot be opened
PolicyList(file_path) ==
  IF world.pol[file_path].open_ok THEN world.pol[file_path].contents ELSE NULL

\* the policy-list membership test on the target of the call in progress
TargetListed(file_path) ==
  exechelp_file_list_contains_path(PolicyList(file_path), proc.path) # 0

\* /usr/bin/vlc, and the list of the one line /usr/bin/vlc-wrapper
UsrBinVlc ==
  <<"/", "u", "s", "r", "/", "b", "i", "n", "/", "v", "l", "c">>
VlcWrapperList ==
  <<"/", "u", "s", "r", "/", "b", "i", "n", "/", "v", "l", "c", "-", "w", "r", "a", "p", "p", "e", "r", "\n">>

\* C34: the target of a call is found in the helpers list, and in the
\* managed-bins list, exactly when the policy-list membership test finds it
\* there: some line equals the target or is a prefix of it that ends at a
\* separator; /usr/bin/vlc is not found in the list of the one line
\* /usr/bin/vlc-wrapper.
C34_TargetByMembership ==
  /\ (proc.filtered /\ proc.path # NULL)
       => /\ exechelp_is_associated_helper_client(world, tb, proc.path).found = 1
               <=> TargetListed(EXECHELP_HELPER_BINS_PATH)
          /\ exechelp_is_sandbox_managed_app(world, tb, proc.path).found = 1
               <=> TargetListed(EXECHELP_MANAGED_BINS_PATH)
  /\ ListNames(UsrBinVlc, [list |-> VlcWrapperList, tb |-> NoTables]).found = 0

\* the line that starts at the 1-based index i of the list is empty
EmptyLineAt(managed, i) ==
  /\ managed[i] = EXECHELP_FILE_SEPARATOR_CHR
  /\ i = 1 \/ managed[i - 1] = EXECHELP_FILE_SEPARATOR_CHR

\* the list has an empty line and an entry after it
EmptyLineBeforeEntry(managed) ==
  \E i \in 1..Len(managed) :
    /\ EmptyLineAt(managed, i)
    /\ \E j \in (i + 1)..Len(managed) : managed[j] # EXECHELP_FILE_SEPARATOR_CHR

\* the list ends with an entry and one newline
OneTrailingNewline(managed) ==
  /\ Len(managed) >= 2
  /\ managed[Len(managed)] = EXECHELP_FILE_SEPARATOR_CHR
  /\ managed[Len(managed) - 1] # EXECHELP_FILE_SEPARATOR_CHR

\* C35: exechelp_file_list_contains_path finds every candidate path in a list
\* that has an empty line before an entry, and for a list that ends with an
\* entry and one newline it returns what it returns for the same list
\* without that newline.
C35_EmptyLineAndTrailingNewline ==
  q_ret # -1 =>
    /\ (EmptyLineBeforeEntry(q_managed) /\ q_real # NULL) => q_ret = 1
    /\ OneTrailingNewline(q_managed)
         => q_ret = exechelp_file_list_contains_path(
                      SubSeq(q_managed, 1, Len(q_managed) - 1), q_real)

\* C35 witness: the list of the lines b, the empty line and a was searched
\* for /ab, which neither entry matches, and the search found it.
C35_EmptyLineMatched ==
  /\ q_managed = <<"b", EXECHELP_FILE_SEPARATOR_CHR, EXECHELP_FILE_SEPARATOR_CHR, "a">>
  /\ q_real = <<SLASH, "a", "b">>
  /\ q_ret = 1

\* the filter of the call in progress was given a target and an argv
FilterGiven == proc.filtered /\ proc.path # NULL /\ proc.argv # NULL_ARRAY

\* the half (exec, argv) is the whole call, and the other half is empty
OnlyHalf(exec, half_argv, other_exec, other_argv) ==
  /\ exec = proc.path
  /\ UpToNull(half_argv) = UpToNull(proc.argv)
  /\ other_exec = NULL
  /\ other_argv = NULL_ARRAY

\* C36: for every non-null target and argv the filter sets exactly one half:
\* the allowed half is (target, argv) and the forbidden half is empty, or
\* the converse, never both and never neither; a call that made a sentinel
\* exec makes no allowed exec and ends with -1 and EACCES.
C36_ExactlyOneHalf ==
  /\ FilterGiven
       => \/ OnlyHalf(proc.allowed_exec, proc.allowed_argv,
                      proc.forbidden_exec, proc.forbidden_argv)
          \/ OnlyHalf(proc.forbidden_exec, proc.forbidden_argv,
                      proc.allowed_exec, proc.allowed_argv)
  /\ (CallOver /\ CallsOfKind("sentinel") # {})
       => /\ CallsOfKind("allowed") = {}
          /\ proc.pc = "returned"
          /\ proc.ret_value = -1
          /\ proc.errno = "EACCES"

\* the decision array of the call in progress holds a tag outside
\* {HELPERS, UNSPECIFIED} for an argument
SomeArgumentForbidden ==
  \E i \in 2..Len(proc.decisions) :
    BitAnd(proc.decisions[i], BitOr(HELPERS, UNSPECIFIED)) = 0

Terminated(result) == result.errno # "DIVERGES"

\* C38: _exechelp_canonicalize_filename_mode terminates for every name, every
\* configuration of symbolic links and every mode, a link a -> a/x included.
C38_CanonicalizeTerminates ==
  /\ k_call.called => Terminated(k_call.ret)
  /\ k_call.again_called => Terminated(k_call.again)
  /\ k_call.real_called => Terminated(k_call.can_fname)

\* the copy of alloc pointers was filled from argv alone: no pointer was
\* written past its end and none was read past the NULL that ends argv
CopyInBounds(copy, alloc) ==
  /\ Len(copy) <= alloc
  /\ \A i \in 1..Len(copy) : copy[i] # BEYOND

\* C39: for an argv of n entries and its NULL, the copy of argv into the
\* allowed or the forbidden half reads argv[0..n] only and writes within the
\* pointers allocated for the copy, and the scan of the decision array ends
\* at the tag 0 within its n + 1 tags.
C39_ValidIndices ==
  proc.filtered =>
    /\ CopyInBounds(proc.allowed_argv, proc.allowed_alloc)
    /\ CopyInBounds(proc.forbidden_argv, proc.forbidden_alloc)
    /\ proc.decisions # NULL_ARRAY
         => \E i \in 2..Len(proc.decisions) : proc.decisions[i] = NOTHING

====
